---- MODULE Spec2Model ----
(***************************************************************************)
(* A model of the doubly linked list of this repository:                   *)
(*   src/data-structures/iterator-based-linked-list.js                     *)
(*       Node, UltimateLinkedList, Transaction                             *)
(*                                                                         *)
(* Objects live in a heap: a node is a record addressed by its position in *)
(* the sequence `heap`, a reference is that position and Null is 0.  Nodes *)
(* are never freed: an unlinked node keeps its fields, as in JavaScript,   *)
(* where a stale reference (a skip link, a snapshot) still reaches it.     *)
(* Every method is an operator from a world (heap, lists, transactions,    *)
(* and the outputs of the call: listener invocations, return value, thrown *)
(* error) to the world after the call.  A read of a field of null throws a *)
(* TypeError at the point where the code reads it, keeping the writes made *)
(* before it.                                                              *)
(***************************************************************************)
EXTENDS Integers, Sequences, FiniteSets, TLC

VARIABLES heap, lists, txs, log, last, atBegin, cursors, iterators, removers

vars == <<heap, lists, txs, log, last, atBegin, cursors, iterators, removers>>

(***************************************************************************)
(* Values and references                                                   *)
(***************************************************************************)
Null == 0
Undef == 0

\* skip links are used and built only from this size on
MinSkipSize == 8

\* class Node: constructor(value)
NewNode(value) ==
  [value |-> value, next |-> Null, prev |-> Null, skip |-> Null, ins |-> 0]

\* Math.floor(Math.sqrt(n)) for n >= 0
FloorSqrt(n) == CHOOSE k \in 0..n : k * k <= n /\ (k + 1) * (k + 1) > n

Max2(a, b) == IF a >= b THEN a ELSE b
Min2(a, b) == IF a <= b THEN a ELSE b

(***************************************************************************)
(* Worlds                                                                  *)
(***************************************************************************)
Ok(w) == w.err = "none"
Throw(w, e) == IF Ok(w) THEN [w EXCEPT !.err = e] ELSE w

\* the world a call starts in: the state, with the outputs of the call empty
World == [heap |-> heap, lists |-> lists, txs |-> txs,
          log |-> <<>>, err |-> "none", ret |-> Undef, arr |-> <<>>]

Ev(type, a, b, c) == [type |-> type, a |-> a, b |-> b, c |-> c]

(***************************************************************************)
(* Walks over the chain of next references                                 *)
(***************************************************************************)
RECURSIVE WalkNext(_, _, _, _, _)
\* the nodes visited by `while (node !== stop) { ...node.value...; node = node.next }`
WalkNext(h, node, stop, acc, fuel) ==
  IF node = stop THEN [err |-> "none", nodes |-> acc]
  ELSE IF node = Null THEN [err |-> "TypeError", nodes |-> acc]
  ELSE IF fuel = 0 THEN [err |-> "hang", nodes |-> acc]
  ELSE WalkNext(h, h[node].next, stop, Append(acc, node), fuel - 1)

\* the nodes between the head sentinel and the tail sentinel of list l
Chain(w, l) ==
  WalkNext(w.heap, w.heap[w.lists[l].head].next, w.lists[l].tail, <<>>,
           Len(w.heap))

(***************************************************************************)
(* UltimateLinkedList: private helpers                                     *)
(***************************************************************************)
\* the callbacks that throw when they are invoked
ThrowingListeners == {1}

\* listener(event): the invocation is recorded in log, and a throwing callback
\* leaves its error
Invoke(w, listener, event) ==
  LET called == [w EXCEPT !.log = Append(@, [cb |-> listener, ev |-> event])]
  IN IF listener \in ThrowingListeners THEN Throw(called, "Error") ELSE called

RECURSIVE DeliverUncaught(_, _, _, _)
\* for (const listener of listeners) listener(event), with no try around the call
DeliverUncaught(w, listeners, event, i) ==
  IF ~Ok(w) \/ i > Len(listeners) THEN w
  ELSE DeliverUncaught(Invoke(w, listeners[i], event), listeners, event, i + 1)

RECURSIVE Deliver(_, _, _, _)
\* for (const listener of listeners) { try { listener(event) } catch (e) { console.error(...) } }
Deliver(w, listeners, event, i) ==
  IF ~Ok(w) \/ i > Len(listeners) THEN w
  ELSE Deliver([Invoke(w, listeners[i], event) EXCEPT !.err = "none"],
               listeners, event, i + 1)

\* _notify(event)
Notify(w, l, event) ==
  IF ~Ok(w) THEN w
  ELSE LET t == w.lists[l].transaction IN
    IF t # Null
    THEN [w EXCEPT !.txs[t].events = Append(@, event)]
    ELSE Deliver(w, w.lists[l].listeners, event, 1)

\* _addNodeAfter(prev, value)
AddNodeAfter(w, l, prev, value) ==
  IF ~Ok(w) THEN w
  ELSE IF prev = Null THEN Throw(w, "TypeError")
  ELSE
    LET node == Len(w.heap) + 1
        next == w.heap[prev].next
        h1 == Append(w.heap, [NewNode(value) EXCEPT !.prev = prev, !.next = next])
        h2 == [h1 EXCEPT ![prev].next = node]
    IN IF next = Null
       THEN [w EXCEPT !.heap = h2, !.err = "TypeError"]
       ELSE
         LET h3 == [h2 EXCEPT ![next].prev = node,
                              ![node].ins = w.lists[l].modCount]
             w1 == [w EXCEPT !.heap = h3, !.lists[l].size = @ + 1]
         IN IF w1.lists[l].observable /\ w1.lists[l].transaction = Null
            THEN Notify(w1, l, Ev("add", value, 0, 0))
            ELSE w1

\* _removeNode(node); the removed value is left in ret
RemoveNode(w, l, node) ==
  IF ~Ok(w) THEN w
  ELSE IF node = Null THEN Throw(w, "TypeError")
  ELSE
    LET prev == w.heap[node].prev
        next == w.heap[node].next
    IN IF prev = Null THEN Throw(w, "TypeError")
       ELSE
         LET h1 == [w.heap EXCEPT ![prev].next = next] IN
         IF next = Null
         THEN [w EXCEPT !.heap = h1, !.err = "TypeError"]
         ELSE
           LET h2 == [h1 EXCEPT ![next].prev = prev]
               value == h2[node].value
               w1 == [w EXCEPT !.heap = h2, !.lists[l].size = @ - 1,
                               !.ret = value]
           IN IF w1.lists[l].observable /\ w1.lists[l].transaction = Null
              THEN Notify(w1, l, Ev("remove", value, 0, 0))
              ELSE w1

RECURSIVE SkipTarget(_, _, _, _, _)
\* for (let i = 0; i < skipDistance && target !== this._tail; i++) target = target.next
SkipTarget(h, target, tail, i, skipDistance) ==
  IF ~(i < skipDistance /\ target # tail) THEN [err |-> "none", node |-> target]
  ELSE IF target = Null THEN [err |-> "TypeError", node |-> Null]
  ELSE SkipTarget(h, h[target].next, tail, i + 1, skipDistance)

RECURSIVE StampSkips(_, _, _, _, _)
\* the body of the while loop of _updateSkipLinks over the visited nodes
StampSkips(w, nodes, count, tail, skipDistance) ==
  IF ~Ok(w) \/ count > Len(nodes) THEN w
  ELSE IF (count - 1) % skipDistance = 0
  THEN LET t == SkipTarget(w.heap, nodes[count], tail, 0, skipDistance) IN
       IF t.err # "none" THEN Throw(w, t.err)
       ELSE StampSkips([w EXCEPT !.heap[nodes[count]].skip = t.node],
                       nodes, count + 1, tail, skipDistance)
  ELSE StampSkips(w, nodes, count + 1, tail, skipDistance)

\* _updateSkipLinks()
UpdateSkipLinks(w, l) ==
  IF ~Ok(w) THEN w
  ELSE IF ~w.lists[l].useSkipLinks \/ w.lists[l].size < MinSkipSize THEN w
  ELSE
    LET skipDistance == Max2(2, FloorSqrt(w.lists[l].size))
        walk == Chain(w, l)
        w1 == StampSkips(w, walk.nodes, 1, w.lists[l].tail, skipDistance)
    IN IF walk.err = "none" THEN w1 ELSE Throw(w1, walk.err)

RECURSIVE SkipForward(_, _, _, _, _)
\* while (node.skip && idx + Math.floor(Math.sqrt(size)) <= index) { node = node.skip; idx += ... }
SkipForward(h, node, idx, skipDistance, index) ==
  IF node = Null THEN [err |-> "TypeError", node |-> Null, index |-> idx]
  ELSE IF h[node].skip # Null /\ idx + skipDistance <= index
  THEN SkipForward(h, h[node].skip, idx + skipDistance, skipDistance, index)
  ELSE [err |-> "none", node |-> node, index |-> idx]

RECURSIVE StepNext(_, _, _)
\* k times: node = node.next
StepNext(h, node, k) ==
  IF k <= 0 THEN [err |-> "none", node |-> node]
  ELSE IF node = Null THEN [err |-> "TypeError", node |-> Null]
  ELSE StepNext(h, h[node].next, k - 1)

RECURSIVE StepPrev(_, _, _)
\* k times: node = node.prev
StepPrev(h, node, k) ==
  IF k <= 0 THEN [err |-> "none", node |-> node]
  ELSE IF node = Null THEN [err |-> "TypeError", node |-> Null]
  ELSE StepPrev(h, h[node].prev, k - 1)

\* index < 0 ? size + index : index
Resolve(size, index) == IF index < 0 THEN size + index ELSE index

\* the fast-forward of _nodeAt followed by its linear remainder
SkipSeek(h, first, size, index) ==
  LET f == SkipForward(h, first, 0, FloorSqrt(size), index) IN
  IF f.err # "none" THEN f
  ELSE LET s == StepNext(h, f.node, index - f.index) IN
       [err |-> s.err, node |-> s.node, index |-> Max2(f.index, index)]

\* _nodeAt(index): {node, index}, or the error thrown
NodeAt(w, l, index0) ==
  LET L == w.lists[l]
      h == w.heap
      index == Resolve(L.size, index0)
  IN IF index < 0 \/ index >= L.size
     THEN [err |-> "none", node |-> Null, index |-> -1]
     ELSE IF 2 * index <= L.size
     THEN IF L.useSkipLinks /\ L.size >= MinSkipSize
          THEN SkipSeek(h, h[L.head].next, L.size, index)
          ELSE LET s == StepNext(h, h[L.head].next, index) IN
               [err |-> s.err, node |-> s.node, index |-> index]
     ELSE LET s == StepPrev(h, h[L.tail].prev, L.size - 1 - index) IN
          [err |-> s.err, node |-> s.node, index |-> index]

\* size % Math.floor(Math.sqrt(size)) === 0 (NaN, so false, for size <= 0)
RebuildDue(size) == size > 0 /\ size % FloorSqrt(size) = 0

\* size > 0 && size % Math.floor(Math.sqrt(size * 2)) === 0
RebuildDueAfterRemove(size) == size > 0 /\ size % FloorSqrt(size * 2) = 0

BumpModCount(w, l) == IF Ok(w) THEN [w EXCEPT !.lists[l].modCount = @ + 1] ELSE w

(***************************************************************************)
(* Transaction                                                             *)
(***************************************************************************)
\* new Transaction(list)
NewTransaction(l) ==
  [list |-> l, snapshot |-> [head |-> Null, tail |-> Null, size |-> 0],
   active |-> FALSE, events |-> <<>>]

\* Transaction.begin() without if (this._active) return
TxBeginAgain(w, t) ==
  IF ~Ok(w) THEN w
  ELSE
    LET L == w.lists[w.txs[t].list]
        n == Len(w.heap)
    IN [w EXCEPT !.heap = @ \o <<w.heap[L.head], w.heap[L.tail]>>,
                 !.txs[t].active = TRUE,
                 !.txs[t].snapshot =
                    [head |-> n + 1, tail |-> n + 2, size |-> L.size]]

\* Transaction.begin(): the snapshot holds shallow copies of the two sentinels
TxBegin(w, t) ==
  IF ~Ok(w) \/ w.txs[t].active THEN w
  ELSE
    LET L == w.lists[w.txs[t].list]
        n == Len(w.heap)
    IN [w EXCEPT !.heap = @ \o <<w.heap[L.head], w.heap[L.tail]>>,
                 !.txs[t].active = TRUE,
                 !.txs[t].snapshot =
                    [head |-> n + 1, tail |-> n + 2, size |-> L.size]]

RECURSIVE CommitDeliveries(_, _, _, _)
\* for (const event of this.events) for (const listener of this._list._listeners) ...
CommitDeliveries(w, events, listeners, k) ==
  IF ~Ok(w) \/ k > Len(events) THEN w
  ELSE CommitDeliveries(Deliver(w, listeners, events[k], 1), events, listeners, k + 1)

RECURSIVE CommitDeliveriesNewestFirst(_, _, _, _)
CommitDeliveriesNewestFirst(w, events, listeners, k) ==
  IF ~Ok(w) \/ k < 1 THEN w
  ELSE CommitDeliveriesNewestFirst(Deliver(w, listeners, events[k], 1),
                                   events, listeners, k - 1)

\* commit() draining its buffer from the end: the newest event first
TxCommitNewestFirst(w, t) ==
  IF ~Ok(w) \/ ~w.txs[t].active THEN w
  ELSE
    LET l == w.txs[t].list
        w1 == [w EXCEPT !.txs[t].active = FALSE, !.lists[l].transaction = Null]
        w2 == CommitDeliveriesNewestFirst(w1, w1.txs[t].events, w1.lists[l].listeners,
                                          Len(w1.txs[t].events))
    IN [w2 EXCEPT !.txs[t].events = <<>>]

\* Transaction.commit()
TxCommit(w, t) ==
  IF ~Ok(w) \/ ~w.txs[t].active THEN w
  ELSE
    LET l == w.txs[t].list
        w1 == [w EXCEPT !.txs[t].active = FALSE, !.lists[l].transaction = Null]
        w2 == CommitDeliveries(w1, w1.txs[t].events, w1.lists[l].listeners, 1)
    IN [w2 EXCEPT !.txs[t].events = <<>>]

\* Transaction.rollback() without this.events = []
TxRollbackKeepingBuffer(w, t) ==
  IF ~Ok(w) \/ ~w.txs[t].active \/ w.txs[t].snapshot.head = Null THEN w
  ELSE
    LET l == w.txs[t].list
        w1 == [w EXCEPT !.lists[l].head = w.txs[t].snapshot.head,
                        !.lists[l].tail = w.txs[t].snapshot.tail,
                        !.lists[l].size = w.txs[t].snapshot.size,
                        !.txs[t].active = FALSE,
                        !.lists[l].transaction = Null]
    IN Deliver(w1, w1.lists[l].listeners, Ev("rollback", 0, 0, 0), 1)

\* Transaction.rollback()
TxRollback(w, t) ==
  IF ~Ok(w) \/ ~w.txs[t].active \/ w.txs[t].snapshot.head = Null THEN w
  ELSE
    LET l == w.txs[t].list
        w1 == [w EXCEPT !.lists[l].head = w.txs[t].snapshot.head,
                        !.lists[l].tail = w.txs[t].snapshot.tail,
                        !.lists[l].size = w.txs[t].snapshot.size,
                        !.txs[t].active = FALSE,
                        !.lists[l].transaction = Null,
                        !.txs[t].events = <<>>]
    IN Deliver(w1, w1.lists[l].listeners, Ev("rollback", 0, 0, 0), 1)

(***************************************************************************)
(* UltimateLinkedList: reads                                               *)
(***************************************************************************)
\* toArray(): the array is left in arr
ToArray(w, l) ==
  IF ~Ok(w) THEN w
  ELSE LET walk == Chain(w, l) IN
    IF walk.err # "none" THEN Throw(w, walk.err)
    ELSE [w EXCEPT !.arr = [i \in 1..Len(walk.nodes) |-> w.heap[walk.nodes[i]].value]]

\* get(index)
Get(w, l, index) ==
  IF ~Ok(w) THEN w
  ELSE LET at == NodeAt(w, l, index) IN
    IF at.err # "none" THEN Throw(w, at.err)
    ELSE [w EXCEPT !.ret = IF at.node # Null THEN w.heap[at.node].value ELSE Undef]

(***************************************************************************)
(* UltimateLinkedList: mutators                                            *)
(***************************************************************************)
\* set(index, value)
Set(w, l, index, value) ==
  IF ~Ok(w) THEN w
  ELSE LET at == NodeAt(w, l, index) IN
    IF at.err # "none" THEN Throw(w, at.err)
    ELSE IF at.node = Null THEN [w EXCEPT !.ret = FALSE]
    ELSE
      LET oldValue == w.heap[at.node].value
          w1 == [w EXCEPT !.heap[at.node].value = value]
          w2 == IF w1.lists[l].observable
                THEN Notify(w1, l, Ev("update", index, oldValue, value))
                ELSE w1
      IN [w2 EXCEPT !.ret = TRUE]

\* the amortized rebuild at the end of append, prepend and insertAt
RebuildIfDue(w, l) ==
  IF Ok(w) /\ w.lists[l].useSkipLinks /\ RebuildDue(w.lists[l].size)
  THEN UpdateSkipLinks(w, l)
  ELSE w

\* append(value)
AppendValue(w, l, value) ==
  LET w1 == BumpModCount(w, l)
      w2 == AddNodeAfter(w1, l, w1.heap[w1.lists[l].tail].prev, value)
  IN RebuildIfDue(w2, l)

\* prepend(value)
Prepend(w, l, value) ==
  LET w1 == BumpModCount(w, l)
      w2 == AddNodeAfter(w1, l, w1.lists[l].head, value)
  IN RebuildIfDue(w2, l)

RECURSIVE AddAllAtTail(_, _, _, _)
\* for (const value of values) this._addNodeAfter(this._tail.prev, value)
AddAllAtTail(w, l, values, i) ==
  IF ~Ok(w) \/ i > Len(values) THEN w
  ELSE AddAllAtTail(AddNodeAfter(w, l, w.heap[w.lists[l].tail].prev, values[i]),
                    l, values, i + 1)

RECURSIVE AddAllAtHead(_, _, _, _)
\* for (let i = values.length - 1; i >= 0; i--) this._addNodeAfter(this._head, values[i])
AddAllAtHead(w, l, values, i) ==
  IF ~Ok(w) \/ i < 1 THEN w
  ELSE AddAllAtHead(AddNodeAfter(w, l, w.lists[l].head, values[i]),
                    l, values, i - 1)

\* the bracket that push and unshift put around their insertions
BeginIfTransaction(w, l) ==
  IF Ok(w) /\ w.lists[l].transaction # Null
  THEN TxBegin(w, w.lists[l].transaction) ELSE w

CommitIfTransaction(w, l) ==
  IF Ok(w) /\ w.lists[l].transaction # Null
  THEN TxCommit(w, w.lists[l].transaction) ELSE w

ReturnSize(w, l) == IF Ok(w) THEN [w EXCEPT !.ret = w.lists[l].size] ELSE w

\* push(...values)
Push(w, l, values) ==
  LET w1 == BeginIfTransaction(BumpModCount(w, l), l)
      w2 == AddAllAtTail(w1, l, values, 1)
      w3 == IF Ok(w2) /\ w2.lists[l].useSkipLinks /\ Len(values) > 0
            THEN UpdateSkipLinks(w2, l) ELSE w2
  IN ReturnSize(CommitIfTransaction(w3, l), l)

\* unshift(...values)
Unshift(w, l, values) ==
  LET w1 == BeginIfTransaction(BumpModCount(w, l), l)
      w2 == AddAllAtHead(w1, l, values, Len(values))
      w3 == IF Ok(w2) /\ w2.lists[l].useSkipLinks /\ Len(values) > 0
            THEN UpdateSkipLinks(w2, l) ELSE w2
  IN ReturnSize(CommitIfTransaction(w3, l), l)

\* pop()
Pop(w, l) ==
  IF ~Ok(w) \/ w.lists[l].size = 0 THEN w
  ELSE LET w1 == BumpModCount(w, l) IN
       RemoveNode(w1, l, w1.heap[w1.lists[l].tail].prev)

\* shift()
Shift(w, l) ==
  IF ~Ok(w) \/ w.lists[l].size = 0 THEN w
  ELSE LET w1 == BumpModCount(w, l) IN
       RemoveNode(w1, l, w1.heap[w1.lists[l].head].next)

\* index < 0 ? size + index + 1 : index
ResolveInsert(size, index) == IF index < 0 THEN size + index + 1 ELSE index

\* insertAt(value, index)
InsertAt(w, l, value, index0) ==
  IF ~Ok(w) THEN w
  ELSE
    LET index == ResolveInsert(w.lists[l].size, index0) IN
    IF index < 0 \/ index > w.lists[l].size THEN Throw(w, "RangeError")
    ELSE
      LET w1 == BumpModCount(w, l) IN
      IF index = 0 THEN Prepend(w1, l, value)
      ELSE IF index = w1.lists[l].size THEN AppendValue(w1, l, value)
      ELSE LET at == NodeAt(w1, l, index - 1) IN
           IF at.err # "none" THEN Throw(w1, at.err)
           ELSE RebuildIfDue(AddNodeAfter(w1, l, at.node, value), l)

\* removeAt(index) with this._modCount++ ahead of the test of the node
RemoveAtCountingFirst(w, l, index) ==
  IF ~Ok(w) THEN w
  ELSE LET at == NodeAt(w, l, index) IN
    IF at.err # "none" THEN Throw(w, at.err)
    ELSE IF at.node = Null THEN BumpModCount(w, l)
    ELSE
      LET w1 == RemoveNode(BumpModCount(w, l), l, at.node) IN
      IF Ok(w1) /\ w1.lists[l].useSkipLinks
                /\ RebuildDueAfterRemove(w1.lists[l].size)
      THEN [UpdateSkipLinks(w1, l) EXCEPT !.ret = w1.ret]
      ELSE w1

\* removeAt(index)
RemoveAt(w, l, index) ==
  IF ~Ok(w) THEN w
  ELSE LET at == NodeAt(w, l, index) IN
    IF at.err # "none" THEN Throw(w, at.err)
    ELSE IF at.node = Null THEN w
    ELSE
      LET w1 == RemoveNode(BumpModCount(w, l), l, at.node) IN
      IF Ok(w1) /\ w1.lists[l].useSkipLinks
                /\ RebuildDueAfterRemove(w1.lists[l].size)
      THEN [UpdateSkipLinks(w1, l) EXCEPT !.ret = w1.ret]
      ELSE w1

\* remove(value) with the default comparator Object.is
Remove(w, l, value) ==
  IF ~Ok(w) THEN w
  ELSE
    LET walk == Chain(w, l)
        hits == {i \in 1..Len(walk.nodes) : w.heap[walk.nodes[i]].value = value}
    IN IF hits # {}
       THEN LET first == CHOOSE i \in hits : \A j \in hits : i <= j IN
            RemoveNode(BumpModCount(w, l), l, walk.nodes[first])
       ELSE IF walk.err # "none" THEN Throw(w, walk.err)
       ELSE w

\* clear()
Clear(w, l) ==
  IF ~Ok(w) \/ w.lists[l].size = 0 THEN w
  ELSE
    LET w1 == BumpModCount(w, l)
        w2 == IF w1.lists[l].observable
              THEN Notify(w1, l, Ev("clear", w1.lists[l].size, 0, 0))
              ELSE w1
        head == w2.lists[l].head
        tail == w2.lists[l].tail
        h1 == [w2.heap EXCEPT ![head].next = tail]
        h2 == [h1 EXCEPT ![tail].prev = head]
    IN [w2 EXCEPT !.heap = h2, !.lists[l].size = 0]

RECURSIVE ReverseLoop(_, _, _)
\* while (node !== null) { temp = node.next; node.next = node.prev; node.prev = temp; node = temp }
ReverseLoop(h, node, fuel) ==
  IF node = Null THEN [err |-> "none", heap |-> h]
  ELSE IF fuel = 0 THEN [err |-> "hang", heap |-> h]
  ELSE LET temp == h[node].next IN
       ReverseLoop([h EXCEPT ![node].next = h[node].prev, ![node].prev = temp],
                   temp, fuel - 1)

\* reverse() without the exchange of this._head and this._tail
ReverseKeepingEnds(w, l) ==
  IF ~Ok(w) \/ w.lists[l].size < 2 THEN w
  ELSE
    LET w1 == BumpModCount(w, l)
        r == ReverseLoop(w1.heap, w1.lists[l].head, 4 * Len(w1.heap))
    IN IF r.err # "none" THEN [w1 EXCEPT !.heap = r.heap, !.err = r.err]
       ELSE
         LET w2 == [w1 EXCEPT !.heap = r.heap]
             w3 == IF w2.lists[l].useSkipLinks THEN UpdateSkipLinks(w2, l) ELSE w2
         IN IF Ok(w3) /\ w3.lists[l].observable
            THEN Notify(w3, l, Ev("reverse", 0, 0, 0))
            ELSE w3

\* reverse()
Reverse(w, l) ==
  IF ~Ok(w) \/ w.lists[l].size < 2 THEN w
  ELSE
    LET w1 == BumpModCount(w, l)
        r == ReverseLoop(w1.heap, w1.lists[l].head, 4 * Len(w1.heap))
    IN IF r.err # "none" THEN [w1 EXCEPT !.heap = r.heap, !.err = r.err]
       ELSE
         LET w2 == [w1 EXCEPT !.heap = r.heap,
                              !.lists[l].head = w1.lists[l].tail,
                              !.lists[l].tail = w1.lists[l].head]
             w3 == IF w2.lists[l].useSkipLinks THEN UpdateSkipLinks(w2, l) ELSE w2
         IN IF Ok(w3) /\ w3.lists[l].observable
            THEN Notify(w3, l, Ev("reverse", 0, 0, 0))
            ELSE w3

\* the comparators handed to sort: (a, b) => a - b, and one that compares a
\* record by its key alone, the key of value v being floor(v / 100) and the
\* rest of v a tag the comparator ignores
NumericCompare(a, b) == a - b

KeyOf(v) == v \div 100

KeyCompare(a, b) == KeyOf(a) - KeyOf(b)

CompareFn(compareFn, a, b) ==
  IF compareFn = "key" THEN KeyCompare(a, b) ELSE NumericCompare(a, b)

\* Array.prototype.sort under compareWithIndex: a stable sort, so an item comes
\* before another when it compares smaller, or equal and stood before it
StableSort(items, compareFn) ==
  LET n == Len(items)
      compareWithIndex(x, y) ==
        LET result == CompareFn(compareFn, x.value, y.value) IN
        IF result = 0 THEN x.insertionIndex - y.insertionIndex ELSE result
      before(j, i) ==
        \/ compareWithIndex(items[j], items[i]) < 0
        \/ compareWithIndex(items[j], items[i]) = 0 /\ j < i
      rank(i) == Cardinality({j \in 1..n : before(j, i)})
  IN [k \in 1..n |-> items[CHOOSE i \in 1..n : rank(i) = k - 1]]

\* sort(compareFn)
Sort(w, l, compareFn) ==
  IF ~Ok(w) \/ w.lists[l].size <= 1 THEN w
  ELSE
    LET w1 == BumpModCount(w, l)
        walk == Chain(w1, l)
    IN IF walk.err # "none" THEN Throw(w1, walk.err)
       ELSE
         LET nodes == [i \in 1..Len(walk.nodes) |->
                         [value |-> w1.heap[walk.nodes[i]].value,
                          insertionIndex |-> w1.heap[walk.nodes[i]].ins]]
             sorted == StableSort(nodes, compareFn)
             h1 == [n \in 1..Len(w1.heap) |->
                      IF \E i \in 1..Len(walk.nodes) : walk.nodes[i] = n
                      THEN [w1.heap[n] EXCEPT !.value =
                              sorted[CHOOSE i \in 1..Len(walk.nodes) :
                                       walk.nodes[i] = n].value]
                      ELSE w1.heap[n]]
             w2 == [w1 EXCEPT !.heap = h1]
         IN IF w2.lists[l].observable
            THEN Notify(w2, l, Ev("sort", 0, 0, 0))
            ELSE w2

\* concat: the four pointer writes that hang o's nodes behind l's last node,
\* and the size update
SpliceAtTail(w, l, o) ==
  IF ~Ok(w) THEN w
  ELSE
    LET otherHead == w.heap[w.lists[o].head].next
        otherTail == w.heap[w.lists[o].tail].prev
        thisLast == w.heap[w.lists[l].tail].prev
    IN IF thisLast = Null THEN Throw(w, "TypeError")
       ELSE LET h1 == [w.heap EXCEPT ![thisLast].next = otherHead] IN
       IF otherHead = Null THEN [w EXCEPT !.heap = h1, !.err = "TypeError"]
       ELSE LET h2 == [h1 EXCEPT ![otherHead].prev = thisLast] IN
       IF otherTail = Null THEN [w EXCEPT !.heap = h2, !.err = "TypeError"]
       ELSE
         LET h3 == [h2 EXCEPT ![otherTail].next = w.lists[l].tail]
             h4 == [h3 EXCEPT ![w.lists[l].tail].prev = otherTail]
         IN [w EXCEPT !.heap = h4, !.lists[l].size = @ + w.lists[o].size]

\* concat: other._head.next = other._tail; other._tail.prev = other._head;
\* other._size = 0
ClearDonor(w, o) ==
  IF ~Ok(w) THEN w
  ELSE
    LET h1 == [w.heap EXCEPT ![w.lists[o].head].next = w.lists[o].tail]
        h2 == [h1 EXCEPT ![w.lists[o].tail].prev = w.lists[o].head]
    IN [w EXCEPT !.heap = h2, !.lists[o].size = 0]

\* concat without the three writes that empty the donor
ConcatListKeepingDonor(w, l, o) ==
  IF ~Ok(w) \/ w.lists[o].size = 0 THEN w
  ELSE
    LET w1 == BumpModCount(w, l)
        w2 == SpliceAtTail(w1, l, o)
        w4 == IF Ok(w2) /\ w2.lists[l].useSkipLinks THEN UpdateSkipLinks(w2, l) ELSE w2
    IN IF Ok(w4) /\ w4.lists[l].observable
       THEN Notify(w4, l, Ev("concat", w4.lists[l].size, 0, 0))
       ELSE w4

\* concat(other) for another UltimateLinkedList o
ConcatList(w, l, o) ==
  IF ~Ok(w) \/ w.lists[o].size = 0 THEN w
  ELSE
    LET w1 == BumpModCount(w, l)
        w2 == SpliceAtTail(w1, l, o)
        w3 == ClearDonor(w2, o)
        w4 == IF Ok(w3) /\ w3.lists[l].useSkipLinks THEN UpdateSkipLinks(w3, l) ELSE w3
    IN IF Ok(w4) /\ w4.lists[l].observable
       THEN Notify(w4, l, Ev("concat", w4.lists[l].size, 0, 0))
       ELSE w4

\* concat(other) for any other iterable: this.push(...other)
ConcatIterable(w, l, values) == [Push(w, l, values) EXCEPT !.ret = w.ret]

\* new UltimateLinkedList(iterable, {skipLinks, observable}); the new list is
\* the last of lists.  hasIterable is FALSE for iterable == null.
Constructor(w, hasIterable, iterable, skipLinks, observable) ==
  IF ~Ok(w) THEN w
  ELSE
    LET head == Len(w.heap) + 1
        tail == Len(w.heap) + 2
        l == Len(w.lists) + 1
        w1 == [w EXCEPT
                 !.heap = @ \o <<[NewNode(Undef) EXCEPT !.next = tail],
                                 [NewNode(Undef) EXCEPT !.prev = head]>>,
                 !.lists = Append(@, [head |-> head, tail |-> tail, size |-> 0,
                                      useSkipLinks |-> skipLinks,
                                      observable |-> observable,
                                      listeners |-> <<>>,
                                      transaction |-> Null,
                                      modCount |-> 0])]
        w2 == IF hasIterable THEN Push(w1, l, iterable) ELSE w1
        w3 == IF w2.lists[l].useSkipLinks THEN UpdateSkipLinks(w2, l) ELSE w2
    IN [w3 EXCEPT !.ret = w.ret]

RECURSIVE SliceLoop(_, _, _, _, _)
\* while (count-- > 0 && node !== this._tail) { result.append(node.value); node = node.next }
SliceLoop(w, result, node, count, tail) ==
  IF ~Ok(w) \/ ~(count > 0 /\ node # tail) THEN w
  ELSE IF node = Null THEN Throw(w, "TypeError")
  ELSE SliceLoop(AppendValue(w, result, w.heap[node].value), result,
                 w.heap[node].next, count - 1, tail)

\* slice(start, end): the returned list is the last of lists
Slice(w, l, start0, end0) ==
  IF ~Ok(w) THEN w
  ELSE
    LET size == w.lists[l].size
        start == Max2(0, IF start0 < 0 THEN size + start0 ELSE start0)
        end == Min2(size, IF end0 < 0 THEN size + end0 ELSE end0)
    IN IF start >= end THEN Constructor(w, FALSE, <<>>, TRUE, FALSE)
       ELSE
         LET w1 == Constructor(w, FALSE, <<>>, TRUE, FALSE)
             result == Len(w1.lists)
             at == NodeAt(w1, l, start)
         IN IF at.err # "none" THEN Throw(w1, at.err)
            ELSE SliceLoop(w1, result, at.node, end - start, w1.lists[l].tail)

\* beginTransaction(): the transaction returned is left in ret
BeginTransaction(w, l) ==
  IF ~Ok(w) THEN w
  ELSE IF w.lists[l].transaction # Null THEN [w EXCEPT !.ret = w.lists[l].transaction]
  ELSE [w EXCEPT !.txs = Append(@, NewTransaction(l)),
                 !.lists[l].transaction = Len(w.txs) + 1,
                 !.ret = Len(w.txs) + 1]

\* addChangeListener(listener)
AddChangeListener(w, l, listener) ==
  IF ~Ok(w) THEN w ELSE [w EXCEPT !.lists[l].listeners = Append(@, listener)]

\* Array.prototype.indexOf on _listeners: 0 stands for -1, positions from 1
IndexOf(listeners, listener) ==
  IF \E i \in 1..Len(listeners) : listeners[i] = listener
  THEN CHOOSE i \in 1..Len(listeners) :
         /\ listeners[i] = listener
         /\ \A j \in 1..(i - 1) : listeners[j] # listener
  ELSE 0

\* Array.prototype.splice(index, 1)
SpliceOne(s, index) == SubSeq(s, 1, index - 1) \o SubSeq(s, index + 1, Len(s))

\* a call of the function addChangeListener(listener) returned
RemoveListener(w, l, listener) ==
  IF ~Ok(w) THEN w
  ELSE LET index == IndexOf(w.lists[l].listeners, listener) IN
    IF index = 0 THEN w
    ELSE [w EXCEPT !.lists[l].listeners = SpliceOne(@, index)]

(***************************************************************************)
(* Cursor                                                                  *)
(***************************************************************************)
\* new Cursor(list, node = null, index = -1)
NewCursor(l, node, index) ==
  [list |-> l, node |-> node, index |-> index, direction |-> 1]

\* list.cursor()
CursorOf(w, l) == [err |-> "none", cursor |-> NewCursor(l, Null, -1)]

\* list.cursorAt(index)
CursorAt(w, l, index) ==
  LET at == NodeAt(w, l, index) IN
  [err |-> at.err, cursor |-> NewCursor(l, at.node, at.index)]

\* cursor.setDirection(dir)
CursorSetDirection(c, dir) ==
  [c EXCEPT !.direction = IF dir = -1 THEN -1 ELSE 1]

\* cursor.next()
CursorNext(w, c) ==
  LET L == w.lists[c.list] IN
  IF c.node = Null
  THEN [c EXCEPT !.node = IF c.direction = 1 THEN w.heap[L.head].next
                                             ELSE w.heap[L.tail].prev,
                 !.index = IF c.direction = 1 THEN 0 ELSE L.size - 1]
  ELSE [c EXCEPT !.node = IF c.direction = 1 THEN w.heap[c.node].next
                                             ELSE w.heap[c.node].prev,
                 !.index = @ + c.direction]

\* cursor.valid()
CursorValid(w, c) ==
  /\ c.node # Null
  /\ c.node # w.lists[c.list].head
  /\ c.node # w.lists[c.list].tail

\* cursor.reset(toEnd)
CursorReset(w, c, toEnd) ==
  LET L == w.lists[c.list] IN
  [c EXCEPT !.node = IF toEnd THEN w.heap[L.tail].prev ELSE w.heap[L.head].next,
            !.index = IF toEnd THEN L.size - 1 ELSE 0]

(***************************************************************************)
(* The native iterator of UltimateLinkedList                               *)
(***************************************************************************)
\* list[Symbol.iterator](): expectedModCount and node are captured
NewIterator(w, l) ==
  [list |-> l, expectedModCount |-> w.lists[l].modCount, node |-> w.lists[l].head]

\* next() of the iterator it: the thrown error, the result and the node the
\* iterator is left on
IteratorNext(w, it) ==
  IF it.expectedModCount # w.lists[it.list].modCount
  THEN [err |-> "ConcurrentModification", done |-> FALSE, value |-> Undef,
        node |-> it.node]
  ELSE IF it.node = Null
  THEN [err |-> "TypeError", done |-> FALSE, value |-> Undef, node |-> it.node]
  ELSE LET node == w.heap[it.node].next IN
    IF node = w.lists[it.list].tail
    THEN [err |-> "none", done |-> TRUE, value |-> Undef, node |-> node]
    ELSE IF node = Null
    THEN [err |-> "TypeError", done |-> FALSE, value |-> Undef, node |-> node]
    ELSE [err |-> "none", done |-> FALSE, value |-> w.heap[node].value, node |-> node]

(***************************************************************************)
(* Cursor[Symbol.iterator] and reduce                                      *)
(***************************************************************************)
\* next() of the iterator of cursor c without the this.next() after value()
CursorIteratorNextStaying(w, c) ==
  LET c1 == IF ~CursorValid(w, c) THEN CursorNext(w, c) ELSE c IN
  IF ~CursorValid(w, c1)
  THEN [done |-> TRUE, value |-> Undef, cursor |-> c1]
  ELSE [done |-> FALSE, value |-> w.heap[c1.node].value, cursor |-> c1]

\* next() of the iterator of cursor c: the result and the cursor as it is left
CursorIteratorNext(w, c) ==
  LET c1 == IF ~CursorValid(w, c) THEN CursorNext(w, c) ELSE c IN
  IF ~CursorValid(w, c1)
  THEN [done |-> TRUE, value |-> Undef, cursor |-> c1]
  ELSE [done |-> FALSE, value |-> w.heap[c1.node].value,
        cursor |-> CursorNext(w, c1)]

\* first()
First(w, l) ==
  LET L == w.lists[l] IN
  IF w.heap[L.head].next = L.tail THEN Undef ELSE w.heap[w.heap[L.head].next].value

\* the reducer: callback(acc, value, index, list), kept as the term of its
\* arguments so that different call sequences give different results
Callback(acc, value, index) == <<acc, value, index>>

RECURSIVE ReduceOverCursor(_, _, _, _, _)
\* for (const value of cursor) acc = callback(acc, value, index++, this)
ReduceOverCursor(w, c, acc, index, fuel) ==
  IF fuel = 0 THEN Throw(w, "hang")
  ELSE LET r == CursorIteratorNext(w, c) IN
    IF r.done THEN [w EXCEPT !.ret = acc]
    ELSE ReduceOverCursor(w, r.cursor, Callback(acc, r.value, index), index + 1,
                          fuel - 1)

RECURSIVE ReduceOverList(_, _, _, _, _)
\* for (const value of this) acc = callback(acc, value, index++, this)
ReduceOverList(w, it, acc, index, fuel) ==
  IF fuel = 0 THEN Throw(w, "hang")
  ELSE LET r == IteratorNext(w, it) IN
    IF r.err # "none" THEN Throw(w, r.err)
    ELSE IF r.done THEN [w EXCEPT !.ret = acc]
    ELSE ReduceOverList(w, [it EXCEPT !.node = r.node],
                        Callback(acc, r.value, index), index + 1, fuel - 1)

\* reduce(callback) with the index of the second element taken as 0
ReduceCountingFromZero(w, l, hasInitialValue, initialValue) ==
  IF ~Ok(w) THEN w
  ELSE IF w.lists[l].size = 0 /\ ~hasInitialValue THEN Throw(w, "TypeError")
  ELSE IF ~hasInitialValue
  THEN LET cursor == CursorNext(w, CursorOf(w, l).cursor) IN
       ReduceOverCursor(w, CursorNext(w, cursor), First(w, l), 0, Len(w.heap) + 2)
  ELSE ReduceOverList(w, NewIterator(w, l), initialValue, 0, Len(w.heap) + 2)

\* reduce(callback, initialValue); hasInitialValue is arguments.length > 1
Reduce(w, l, hasInitialValue, initialValue) ==
  IF ~Ok(w) THEN w
  ELSE IF w.lists[l].size = 0 /\ ~hasInitialValue THEN Throw(w, "TypeError")
  ELSE IF ~hasInitialValue
  THEN LET cursor == CursorNext(w, CursorOf(w, l).cursor) IN
       ReduceOverCursor(w, CursorNext(w, cursor), First(w, l), 1, Len(w.heap) + 2)
  ELSE ReduceOverList(w, NewIterator(w, l), initialValue, 0, Len(w.heap) + 2)

(***************************************************************************)
(* UltimateLinkedList.range                                                *)
(***************************************************************************)
RECURSIVE RangeLoop(_, _, _, _, _)
\* for (let i = start; step > 0 ? i < end : i > end; i += step) list.append(i)
RangeLoop(w, list, i, end, step) ==
  IF ~Ok(w) \/ ~(IF step > 0 THEN i < end ELSE i > end) THEN w
  ELSE RangeLoop(AppendValue(w, list, i), list, i + step, end, step)

RECURSIVE RangeLoopToEnd(_, _, _, _, _)
\* the loop with i <= end and i >= end as its tests
RangeLoopToEnd(w, list, i, end, step) ==
  IF ~Ok(w) \/ ~(IF step > 0 THEN i <= end ELSE i >= end) THEN w
  ELSE RangeLoopToEnd(AppendValue(w, list, i), list, i + step, end, step)

\* range(start, end, step) with the loop that runs up to end
RangeToEnd(w, start, end, step) ==
  IF ~Ok(w) THEN w
  ELSE
    LET w1 == Constructor(w, FALSE, <<>>, TRUE, FALSE)
        list == Len(w1.lists)
    IN IF step = 0 THEN Throw(w1, "RangeError")
       ELSE IF (step > 0 /\ start >= end) \/ (step < 0 /\ start <= end) THEN w1
       ELSE [RangeLoopToEnd(w1, list, start, end, step) EXCEPT !.ret = w.ret]

\* UltimateLinkedList.range(start, end, step): the list returned is the last
\* of lists
Range(w, start, end, step) ==
  IF ~Ok(w) THEN w
  ELSE
    LET w1 == Constructor(w, FALSE, <<>>, TRUE, FALSE)
        list == Len(w1.lists)
    IN IF step = 0 THEN Throw(w1, "RangeError")
       ELSE IF (step > 0 /\ start >= end) \/ (step < 0 /\ start <= end) THEN w1
       ELSE [RangeLoop(w1, list, start, end, step) EXCEPT !.ret = w.ret]

(***************************************************************************)
(* ImmutableLinkedList                                                     *)
(***************************************************************************)
RECURSIVE SpreadLoop(_, _, _, _)
\* [...iterable]: next() until done; the error thrown and the values
SpreadLoop(w, it, acc, fuel) ==
  IF fuel = 0 THEN [err |-> "hang", values |-> acc]
  ELSE LET r == IteratorNext(w, it) IN
    IF r.err # "none" THEN [err |-> r.err, values |-> acc]
    ELSE IF r.done THEN [err |-> "none", values |-> acc]
    ELSE SpreadLoop(w, [it EXCEPT !.node = r.node], Append(acc, r.value), fuel - 1)

\* ...view, through ImmutableLinkedList[Symbol.iterator], the native iterator
\* of the source
Spread(w, source) == SpreadLoop(w, NewIterator(w, source), <<>>, Len(w.heap) + 2)

\* toMutable() handing out a list object with the sentinels of the source
ToMutableSharingNodes(w, source) ==
  IF ~Ok(w) THEN w
  ELSE [w EXCEPT !.lists = Append(@, [w.lists[source] EXCEPT !.modCount = 0])]

\* list.immutable().toMutable(): new UltimateLinkedList(view); the copy is the
\* last of lists
ToMutable(w, source) ==
  IF ~Ok(w) THEN w
  ELSE LET values == Spread(w, source) IN
    IF values.err # "none" THEN Throw(w, values.err)
    ELSE Constructor(w, TRUE, values.values, TRUE, FALSE)

(***************************************************************************)
(* LinkedList: the singly linked list with a head sentinel.  A list is the *)
(* record s of its nodes ({value, next}, node 1 the sentinel), #tail and   *)
(* #size, with the outputs of the last call: err, and ret, which is either *)
(* the list itself (self) or a value                                       *)
(***************************************************************************)
Self == [self |-> TRUE, value |-> Undef]
Value(v) == [self |-> FALSE, value |-> v]

\* new LinkedList()
LinkedListNew ==
  [heap |-> <<[value |-> Undef, next |-> Null]>>, head |-> 1, tail |-> 1,
   size |-> 0, err |-> "none", ret |-> Self]

\* append(value)
LinkedListAppend(s, value) ==
  LET node == Len(s.heap) + 1 IN
  [s EXCEPT !.heap = Append([@ EXCEPT ![s.tail].next = node],
                            [value |-> value, next |-> Null]),
            !.tail = node,
            !.size = @ + 1,
            !.ret = Self]

\* prepend(value)
LinkedListPrepend(s, value) ==
  LET node == Len(s.heap) + 1 IN
  [s EXCEPT !.heap = Append([@ EXCEPT ![s.head].next = node],
                            [value |-> value, next |-> s.heap[s.head].next]),
            !.tail = IF s.tail = s.head THEN node ELSE @,
            !.size = @ + 1,
            !.ret = Self]

RECURSIVE LinkedListOf(_)
\* LinkedList.of(...values): the constructor appends the values in order
LinkedListOf(values) ==
  IF values = <<>> THEN LinkedListNew
  ELSE LinkedListAppend(LinkedListOf(SubSeq(values, 1, Len(values) - 1)),
                        values[Len(values)])

RECURSIVE SeekLoop(_, _, _, _)
\* while (i++ < index) { prev = curr; curr = curr.next }
SeekLoop(h, prev, curr, steps) ==
  IF steps = 0 THEN [found |-> TRUE, prev |-> prev, curr |-> curr]
  ELSE SeekLoop(h, curr, h[curr].next, steps - 1)

\* #seek(index): {prev, curr}, or null (found is FALSE)
Seek(s, index0) ==
  LET index == IF index0 < 0 THEN s.size + index0 ELSE index0 IN
  IF index < 0 \/ index >= s.size
  THEN [found |-> FALSE, prev |-> Null, curr |-> Null]
  ELSE SeekLoop(s.heap, s.head, s.heap[s.head].next, index)

\* insertAt(value, index)
LinkedListInsertAt(s, value, index0) ==
  LET index == IF index0 < 0 THEN s.size + index0 + 1 ELSE index0 IN
  IF index < 0 \/ index > s.size THEN [s EXCEPT !.err = "RangeError"]
  ELSE IF index = s.size THEN LinkedListAppend(s, value)
  ELSE LET prev == Seek(s, index).prev
           node == Len(s.heap) + 1
       IN [s EXCEPT !.heap = Append([@ EXCEPT ![prev].next = node],
                                    [value |-> value, next |-> s.heap[prev].next]),
                    !.size = @ + 1,
                    !.ret = Self]

\* removeAt(index) without if (curr === this.#tail) this.#tail = prev
LinkedListRemoveAtKeepingTail(s, index) ==
  LET nodePair == Seek(s, index) IN
  IF ~nodePair.found THEN [s EXCEPT !.ret = Value(Undef)]
  ELSE [s EXCEPT !.heap[nodePair.prev].next = s.heap[nodePair.curr].next,
                 !.size = @ - 1,
                 !.ret = Value(s.heap[nodePair.curr].value)]

\* removeAt(index)
LinkedListRemoveAt(s, index) ==
  LET nodePair == Seek(s, index) IN
  IF ~nodePair.found THEN [s EXCEPT !.ret = Value(Undef)]
  ELSE [s EXCEPT !.heap[nodePair.prev].next = s.heap[nodePair.curr].next,
                 !.tail = IF nodePair.curr = s.tail THEN nodePair.prev ELSE @,
                 !.size = @ - 1,
                 !.ret = Value(s.heap[nodePair.curr].value)]

RECURSIVE LinkedListReverseLoop(_, _, _)
\* while (curr) { nxt = curr.next; curr.next = prev; prev = curr; curr = nxt }
LinkedListReverseLoop(h, prev, curr) ==
  IF curr = Null THEN [heap |-> h, prev |-> prev]
  ELSE LinkedListReverseLoop([h EXCEPT ![curr].next = prev], curr, h[curr].next)

\* reverse()
LinkedListReverse(s) ==
  IF s.size < 2 THEN [s EXCEPT !.ret = Self]
  ELSE LET first == s.heap[s.head].next
           r == LinkedListReverseLoop(s.heap, Null, first)
       IN [s EXCEPT !.heap = [r.heap EXCEPT ![s.head].next = r.prev],
                    !.tail = first,
                    !.ret = Self]

RECURSIVE LinkedListValues(_, _, _, _)
\* [...list]: for (let n = this.#head.next; n; n = n.next) yield n.value
LinkedListValues(h, n, acc, fuel) ==
  IF n = Null \/ fuel = 0 THEN acc
  ELSE LinkedListValues(h, h[n].next, Append(acc, h[n].value), fuel - 1)

\* new LinkedList() among the nodes h of other lists
LinkedListNewIn(h) ==
  [heap |-> Append(h, [value |-> Undef, next |-> Null]), head |-> Len(h) + 1,
   tail |-> Len(h) + 1, size |-> 0, err |-> "none", ret |-> Self]

RECURSIVE LinkedListAppendAll(_, _)
\* for (const value of iterable) this.append(value)
LinkedListAppendAll(s, values) ==
  IF values = <<>> THEN s
  ELSE LinkedListAppendAll(LinkedListAppend(s, Head(values)), Tail(values))

RECURSIVE LinkedListRemoveLoop(_, _, _, _)
\* while (curr) { if (cmp(curr.value, value)) {...; return curr.value}
\*                prev = curr; curr = curr.next }, cmp being ===
LinkedListRemoveLoop(s, prev, curr, value) ==
  IF curr = Null THEN [s EXCEPT !.ret = Value(Undef)]
  ELSE IF s.heap[curr].value = value
  THEN [s EXCEPT !.heap[prev].next = s.heap[curr].next,
                 !.tail = IF curr = s.tail THEN prev ELSE @,
                 !.size = @ - 1,
                 !.ret = Value(s.heap[curr].value)]
  ELSE LinkedListRemoveLoop(s, curr, s.heap[curr].next, value)

\* remove(value)
LinkedListRemove(s, value) ==
  LinkedListRemoveLoop(s, s.head, s.heap[s.head].next, value)

\* clear()
LinkedListClear(s) ==
  [s EXCEPT !.heap[s.head].next = Null, !.tail = s.head, !.size = 0,
            !.ret = Self]

\* this.concat(other): s is this and o is other, among the same nodes; the
\* result holds both lists as the call leaves them.  With other === this the
\* two are one object, and the clear() of the donor is a clear() of this.
LinkedListConcat(s, o, same) ==
  IF o.size = 0 THEN [this |-> [s EXCEPT !.ret = Self], other |-> o]
  ELSE
    LET h1 == [s.heap EXCEPT ![s.tail].next = s.heap[o.head].next]
        joined == [s EXCEPT !.heap = h1, !.tail = o.tail,
                            !.size = @ + o.size, !.ret = Self]
        cleared == LinkedListClear([o EXCEPT !.heap = h1])
    IN IF same THEN [this |-> cleared, other |-> cleared]
       ELSE [this |-> [joined EXCEPT !.heap = cleared.heap], other |-> cleared]

(***************************************************************************)
(* States and calls                                                        *)
(***************************************************************************)
EmptyWorld == [heap |-> <<>>, lists |-> <<>>, txs |-> <<>>,
               log |-> <<>>, err |-> "none", ret |-> Undef, arr |-> <<>>]

\* what toArray() gives in a world: the error it throws and the array
Contents(w, l) == LET r == ToArray([w EXCEPT !.err = "none"], l) IN
                  [err |-> r.err, arr |-> r.arr]

NoCall == [n |-> 0, op |-> "new", args |-> <<>>, ret |-> Undef, arr |-> <<>>,
           err |-> "none"]

\* the state a program is in after its setup calls left the world w
Start(w) ==
  /\ heap = w.heap
  /\ lists = w.lists
  /\ txs = w.txs
  /\ log = <<>>
  /\ last = NoCall
  /\ atBegin = <<>>
  /\ cursors = <<>>
  /\ iterators = <<>>
  /\ removers = <<>>

\* the state after a call: the world it left, its outputs (log, last), and for
\* every transaction the call activated, what the list held when the call began
Install(w, op, args) ==
  /\ heap' = w.heap
  /\ lists' = w.lists
  /\ txs' = w.txs
  /\ log' = w.log
  /\ last' = [n |-> last.n + 1, op |-> op, args |-> args, ret |-> w.ret,
              arr |-> w.arr, err |-> w.err]
  /\ atBegin' = [t \in 1..Len(w.txs) |->
                   IF t <= Len(txs) /\ (txs[t].active \/ ~w.txs[t].active)
                   THEN atBegin[t]
                   ELSE [size |-> lists[w.txs[t].list].size,
                         contents |-> Contents(World, w.txs[t].list)]]
  /\ UNCHANGED <<cursors, iterators, removers>>

(***************************************************************************)
(* Spec: one list with two listeners, and its transactions                 *)
(***************************************************************************)
MaxCalls == 5
MaxMod == 4
MaxHeap == 12
MaxTx == 2
MaxEvents == 2

InitIterables == {<<>>, <<2, 1>>}

\* const list = new UltimateLinkedList(iterable, {observable});
\* list.addChangeListener(cb1); list.addChangeListener(cb2)
Init ==
  \E it \in InitIterables, observable \in BOOLEAN :
    Start(AddChangeListener(
            AddChangeListener(
              Constructor(EmptyWorld, TRUE, it, TRUE, observable), 1, 1), 1, 2))

Bounded(w) ==
  /\ Len(w.heap) <= MaxHeap
  /\ \A l \in 1..Len(w.lists) : w.lists[l].modCount <= MaxMod
  /\ \A t \in 1..Len(w.txs) : Len(w.txs[t].events) <= MaxEvents

Running == last.err # "hang" /\ last.n < MaxCalls

Call(w, op, args) == Bounded(w) /\ Install(w, op, args)

DoAppend ==
  Running /\ \E w \in {AppendValue(World, 1, 1)} :
    Call(w, "append", <<1>>)
DoPrepend ==
  Running /\ \E w \in {Prepend(World, 1, 2)} :
    Call(w, "prepend", <<2>>)
DoPush ==
  Running /\ \E w \in {Push(World, 1, <<1>>)} :
    Call(w, "push", <<1>>)
DoUnshift ==
  Running /\ \E w \in {Unshift(World, 1, <<2>>)} :
    Call(w, "unshift", <<2>>)
DoInsertAt ==
  Running /\ \E w \in {InsertAt(World, 1, 1, 1)} :
    Call(w, "insertAt", <<1, 1>>)
DoRemoveAt ==
  Running /\ \E w \in {RemoveAt(World, 1, 0)} :
    Call(w, "removeAt", <<0>>)
DoRemove ==
  Running /\ \E w \in {Remove(World, 1, 1)} :
    Call(w, "remove", <<1>>)
DoPop ==
  Running /\ \E w \in {Pop(World, 1)} :
    Call(w, "pop", <<>>)
DoShift ==
  Running /\ \E w \in {Shift(World, 1)} :
    Call(w, "shift", <<>>)
DoSet ==
  Running /\ \E w \in {Set(World, 1, 0, 2)} :
    Call(w, "set", <<0, 2>>)
DoClear ==
  Running /\ \E w \in {Clear(World, 1)} :
    Call(w, "clear", <<>>)
DoReverse ==
  Running /\ \E w \in {Reverse(World, 1)} :
    Call(w, "reverse", <<>>)
DoSort ==
  Running /\ \E w \in {Sort(World, 1, "numeric")} :
    Call(w, "sort", <<>>)
\* list.concat(UltimateLinkedList.of(1))
DoConcat ==
  Running /\ \E o \in {Constructor(World, TRUE, <<1>>, TRUE, FALSE)} :
             \E w \in {ConcatList(o, 1, Len(o.lists))} :
    Call(w, "concat", <<1>>)
DoBeginTransaction ==
  Running /\ Len(txs) < MaxTx /\ \E w \in {BeginTransaction(World, 1)} :
    Call(w, "beginTransaction", <<>>)
DoBegin ==
  Running /\ \E t \in 1..Len(txs) : \E w \in {TxBegin(World, t)} :
    Call(w, "begin", <<t>>)
DoCommit ==
  Running /\ \E t \in 1..Len(txs) : \E w \in {TxCommit(World, t)} :
    Call(w, "commit", <<t>>)
DoRollback ==
  Running /\ \E t \in 1..Len(txs) : \E w \in {TxRollback(World, t)} :
    Call(w, "rollback", <<t>>)

Next ==
  \/ DoAppend \/ DoPrepend \/ DoPush \/ DoUnshift \/ DoInsertAt \/ DoRemoveAt
  \/ DoRemove \/ DoPop \/ DoShift \/ DoSet \/ DoClear \/ DoReverse \/ DoSort
  \/ DoConcat \/ DoBeginTransaction \/ DoBegin \/ DoCommit \/ DoRollback

Spec == Init /\ [][Next]_vars

(***************************************************************************)
(* SpecSkip: a list with skip links (list 1) and one without (list 2),     *)
(* built from the same values and driven by the same calls                 *)
(***************************************************************************)
MaxInitLen == 9
MaxSkipCalls == 3

InitLens == (MinSkipSize - 1)..MaxInitLen

Iota(n) == [i \in 1..n |-> i]

\* a value no element of the lists has: the initial ones are 1..MaxInitLen
FreshValue == 20 + last.n

InsertIndices == {1, 3, -1}
RemoveIndices == {0, 1, 3, lists[1].size - 1}
RemoveValues == {1, 4}
SliceRanges == {<<3, 5>>, <<-3, 100>>, <<5, 2>>}

SkipNoCall ==
  [n |-> 0, op |-> "new", args |-> <<>>, ret |-> Undef, arr |-> <<>>,
   err |-> "none", before |-> [err |-> "none", arr |-> <<>>],
   linear |-> [ret |-> Undef, err |-> "none"], result |-> Null]

\* const a = new UltimateLinkedList(values, {skipLinks: true});
\* const b = new UltimateLinkedList(values, {skipLinks: false})
InitSkip ==
  \E n \in InitLens :
    LET w == Constructor(Constructor(EmptyWorld, TRUE, Iota(n), TRUE, FALSE),
                         TRUE, Iota(n), FALSE, FALSE)
    IN /\ heap = w.heap
       /\ lists = w.lists
       /\ txs = w.txs
       /\ log = <<>>
       /\ last = SkipNoCall
       /\ atBegin = <<>>
       /\ cursors = <<>>
       /\ iterators = <<>>
       /\ removers = <<>>

\* the caller goes on after a call that threw
Caught(w) == [w EXCEPT !.err = "none", !.ret = Undef]

SkipRunning == last.err # "hang" /\ last.linear.err # "hang" /\ last.n < MaxSkipCalls

\* the state after the same call was made on list 1 (leaving world a) and then
\* on list 2 (leaving world b): last keeps both outcomes, what list 1 held
\* before the call, and the list the call returned, if it returned one
InstallBoth(a, b, op, args, result) ==
  /\ heap' = b.heap
  /\ lists' = b.lists
  /\ txs' = b.txs
  /\ log' = b.log
  /\ last' = [n |-> last.n + 1, op |-> op, args |-> args, ret |-> a.ret,
              arr |-> a.arr, err |-> a.err, before |-> Contents(World, 1),
              linear |-> [ret |-> b.ret, err |-> b.err], result |-> result]
  /\ atBegin' = atBegin
  /\ UNCHANGED <<cursors, iterators, removers>>

SkipAppend ==
  SkipRunning /\ \E a \in {AppendValue(World, 1, FreshValue)} :
                 \E b \in {AppendValue(Caught(a), 2, FreshValue)} :
                   InstallBoth(a, b, "append", <<FreshValue>>, Null)
SkipPrepend ==
  SkipRunning /\ \E a \in {Prepend(World, 1, FreshValue)} :
                 \E b \in {Prepend(Caught(a), 2, FreshValue)} :
                   InstallBoth(a, b, "prepend", <<FreshValue>>, Null)
SkipInsertAt ==
  SkipRunning /\ \E i \in InsertIndices :
                 \E a \in {InsertAt(World, 1, FreshValue, i)} :
                 \E b \in {InsertAt(Caught(a), 2, FreshValue, i)} :
                   InstallBoth(a, b, "insertAt", <<FreshValue, i>>, Null)
SkipRemoveAt ==
  SkipRunning /\ \E i \in RemoveIndices :
                 \E a \in {RemoveAt(World, 1, i)} :
                 \E b \in {RemoveAt(Caught(a), 2, i)} :
                   InstallBoth(a, b, "removeAt", <<i>>, Null)
SkipRemove ==
  SkipRunning /\ \E v \in RemoveValues :
                 \E a \in {Remove(World, 1, v)} :
                 \E b \in {Remove(Caught(a), 2, v)} :
                   InstallBoth(a, b, "remove", <<v>>, Null)
SkipPop ==
  SkipRunning /\ \E a \in {Pop(World, 1)} :
                 \E b \in {Pop(Caught(a), 2)} :
                   InstallBoth(a, b, "pop", <<>>, Null)
SkipShift ==
  SkipRunning /\ \E a \in {Shift(World, 1)} :
                 \E b \in {Shift(Caught(a), 2)} :
                   InstallBoth(a, b, "shift", <<>>, Null)
\* const part = a.slice(start, end)
SkipSlice ==
  SkipRunning /\ \E r \in SliceRanges :
                 \E a \in {Slice(World, 1, r[1], r[2])} :
                   InstallBoth(a, Caught(a), "slice", r,
                               IF a.err = "none" THEN Len(a.lists) ELSE Null)

NextSkip ==
  \/ SkipAppend \/ SkipPrepend \/ SkipInsertAt \/ SkipRemoveAt
  \/ SkipRemove \/ SkipPop \/ SkipShift \/ SkipSlice

SpecSkip == InitSkip /\ [][NextSkip]_vars

(***************************************************************************)
(* SpecConcat: two lists A (list 1) and B (list 2), mutated and then       *)
(* concatenated either way                                                 *)
(***************************************************************************)
MaxConcatCalls == 3

ConcatLensA == {0, 2, MinSkipSize - 1}
ConcatLensB == {0, 1, 3}

ConcatNoCall ==
  [n |-> 0, op |-> "new", args |-> <<>>, ret |-> Undef, arr |-> <<>>,
   err |-> "none", before |-> <<>>]

\* const A = new UltimateLinkedList([1..m], {skipLinks});
\* const B = new UltimateLinkedList([11..10+n])
InitConcat ==
  \E m \in ConcatLensA, n \in ConcatLensB, skipLinks \in BOOLEAN :
    \E w \in {Constructor(Constructor(EmptyWorld, TRUE, Iota(m), skipLinks, FALSE),
                          TRUE, [i \in 1..n |-> 10 + i], TRUE, FALSE)} :
      /\ heap = w.heap
      /\ lists = w.lists
      /\ txs = w.txs
      /\ log = <<>>
      /\ last = ConcatNoCall
      /\ atBegin = <<>>
      /\ cursors = <<>>
      /\ iterators = <<>>
      /\ removers = <<>>

ConcatRunning == last.err # "hang" /\ last.n < MaxConcatCalls

\* the state after a call: the world it left and its outputs; last keeps what
\* toArray() gave on every list before the call
InstallCall(w, op, args) ==
  /\ heap' = w.heap
  /\ lists' = w.lists
  /\ txs' = w.txs
  /\ log' = w.log
  /\ last' = [n |-> last.n + 1, op |-> op, args |-> args, ret |-> w.ret,
              arr |-> w.arr, err |-> w.err,
              before |-> [k \in 1..Len(lists) |-> Contents(World, k)]]
  /\ atBegin' = atBegin
  /\ UNCHANGED <<cursors, iterators, removers>>

ConcatAppend ==
  ConcatRunning /\ \E l \in 1..2 : \E w \in {AppendValue(World, l, FreshValue)} :
                     InstallCall(w, "append", <<l, FreshValue>>)
ConcatPrepend ==
  ConcatRunning /\ \E l \in 1..2 : \E w \in {Prepend(World, l, FreshValue)} :
                     InstallCall(w, "prepend", <<l, FreshValue>>)
ConcatInsertAt ==
  ConcatRunning /\ \E l \in 1..2 : \E w \in {InsertAt(World, l, FreshValue, 1)} :
                     InstallCall(w, "insertAt", <<l, FreshValue, 1>>)
ConcatPop ==
  ConcatRunning /\ \E l \in 1..2 : \E w \in {Pop(World, l)} :
                     InstallCall(w, "pop", <<l>>)
ConcatShift ==
  ConcatRunning /\ \E l \in 1..2 : \E w \in {Shift(World, l)} :
                     InstallCall(w, "shift", <<l>>)
ConcatReverse ==
  ConcatRunning /\ \E l \in 1..2 : \E w \in {Reverse(World, l)} :
                     InstallCall(w, "reverse", <<l>>)
\* A.concat(B) or B.concat(A)
ConcatConcat ==
  ConcatRunning /\ \E l \in 1..2 : \E w \in {ConcatList(World, l, 3 - l)} :
                     InstallCall(w, "concat", <<l, 3 - l>>)

NextConcat ==
  \/ ConcatAppend \/ ConcatPrepend \/ ConcatInsertAt \/ ConcatPop
  \/ ConcatShift \/ ConcatReverse \/ ConcatConcat

SpecConcat == InitConcat /\ [][NextConcat]_vars

(***************************************************************************)
(* Claims about concat (checked under SpecConcat)                          *)
(***************************************************************************)
\* C8: after A.concat(B) for distinct lists A of size m and B of size n,
\* A.length is m + n, B.length is 0 and B.toArray() is [], and A.toArray() is
\* A's elements before the call followed by B's elements before the call
C8_ConcatMovesDonorBehind ==
  [][last'.op = "concat"
     => LET l == last'.args[1]
            o == last'.args[2]
        IN /\ last'.err = "none"
           /\ lists[l].size = Len(Contents(World, l).arr)
           /\ lists[o].size = Len(Contents(World, o).arr)
           /\ lists'[l].size = lists[l].size + lists[o].size
           /\ lists'[o].size = 0
           /\ Contents(World', o) = [err |-> "none", arr |-> <<>>]
           /\ Contents(World', l) =
                [err |-> "none",
                 arr |-> Contents(World, l).arr \o Contents(World, o).arr]]_vars

\* a concat of two non-empty lists that took the receiver over the size from
\* which skip links are kept
C8_Witness ==
  /\ last.op = "concat" /\ last.err = "none"
  /\ Len(last.before[1].arr) > 0 /\ Len(last.before[2].arr) > 0
  /\ lists[last.args[1]].size >= MinSkipSize
  /\ lists[last.args[1]].useSkipLinks

(***************************************************************************)
(* SpecIter: a list (list 1) iterated with its native iterator while it    *)
(* is mutated, and a second list (list 2) to concat with                   *)
(***************************************************************************)
MaxIterCalls == 4
MaxIterators == 1

\* const list = new UltimateLinkedList(iterable);
\* const other = UltimateLinkedList.of(3)
InitIter ==
  \E it \in {<<>>, <<2, 1>>} :
    \E w \in {Constructor(Constructor(EmptyWorld, TRUE, it, TRUE, FALSE),
                          TRUE, <<3>>, TRUE, FALSE)} :
      /\ heap = w.heap
      /\ lists = w.lists
      /\ txs = w.txs
      /\ log = <<>>
      /\ last = ConcatNoCall
      /\ atBegin = <<>>
      /\ cursors = <<>>
      /\ iterators = <<>>
      /\ removers = <<>>

IterRunning == last.err # "hang" /\ last.n < MaxIterCalls

\* the state after a call of a list method: as InstallCall leaves it, and every
\* iterator that has not reported done remembers whether its list has been
\* changed since the iterator was created
InstallMutation(w, op, args) ==
  /\ heap' = w.heap
  /\ lists' = w.lists
  /\ txs' = w.txs
  /\ log' = w.log
  /\ last' = [n |-> last.n + 1, op |-> op, args |-> args, ret |-> w.ret,
              arr |-> w.arr, err |-> w.err,
              before |-> [k \in 1..Len(lists) |-> Contents(World, k)]]
  /\ atBegin' = atBegin
  /\ UNCHANGED <<cursors, removers>>
  /\ iterators' = [i \in 1..Len(iterators) |->
                     [iterators[i] EXCEPT !.changed =
                        @ \/ (~iterators[i].done
                              /\ Contents(w, iterators[i].it.list)
                                   # Contents(World, iterators[i].it.list))]]

\* const iterator = list[Symbol.iterator]()
IterCreate ==
  /\ IterRunning /\ Len(iterators) < MaxIterators
  /\ iterators' = Append(iterators, [it |-> NewIterator(World, 1),
                                     changed |-> FALSE, done |-> FALSE])
  /\ last' = [n |-> last.n + 1, op |-> "iterator", args |-> <<>>, ret |-> Undef,
              arr |-> <<>>, err |-> "none",
              before |-> [k \in 1..Len(lists) |-> Contents(World, k)]]
  /\ UNCHANGED <<heap, lists, txs, log, atBegin, cursors, removers>>

\* iterator.next()
IterNext ==
  /\ IterRunning
  /\ \E i \in 1..Len(iterators) : \E r \in {IteratorNext(World, iterators[i].it)} :
       /\ iterators' = [iterators EXCEPT ![i].it.node = r.node,
                                         ![i].done = @ \/ r.done]
       /\ last' = [n |-> last.n + 1, op |-> "next", args |-> <<i>>,
                   ret |-> [done |-> r.done, value |-> r.value],
                   arr |-> <<>>, err |-> r.err,
                   before |-> [k \in 1..Len(lists) |-> Contents(World, k)]]
  /\ UNCHANGED <<heap, lists, txs, log, atBegin, cursors, removers>>

IterAppend ==
  IterRunning /\ \E w \in {AppendValue(World, 1, FreshValue)} :
                   InstallMutation(w, "append", <<FreshValue>>)
IterPrepend ==
  IterRunning /\ \E w \in {Prepend(World, 1, FreshValue)} :
                   InstallMutation(w, "prepend", <<FreshValue>>)
IterPush ==
  IterRunning /\ \E w \in {Push(World, 1, <<FreshValue>>)} :
                   InstallMutation(w, "push", <<FreshValue>>)
IterUnshift ==
  IterRunning /\ \E w \in {Unshift(World, 1, <<FreshValue>>)} :
                   InstallMutation(w, "unshift", <<FreshValue>>)
IterInsertAt ==
  IterRunning /\ \E w \in {InsertAt(World, 1, FreshValue, 1)} :
                   InstallMutation(w, "insertAt", <<FreshValue, 1>>)
IterPop ==
  IterRunning /\ \E w \in {Pop(World, 1)} : InstallMutation(w, "pop", <<>>)
IterShift ==
  IterRunning /\ \E w \in {Shift(World, 1)} : InstallMutation(w, "shift", <<>>)
IterRemoveAt ==
  IterRunning /\ \E w \in {RemoveAt(World, 1, 0)} :
                   InstallMutation(w, "removeAt", <<0>>)
IterRemove ==
  IterRunning /\ \E w \in {Remove(World, 1, 1)} :
                   InstallMutation(w, "remove", <<1>>)
IterClear ==
  IterRunning /\ \E w \in {Clear(World, 1)} : InstallMutation(w, "clear", <<>>)
IterReverse ==
  IterRunning /\ \E w \in {Reverse(World, 1)} : InstallMutation(w, "reverse", <<>>)
IterSort ==
  IterRunning /\ \E w \in {Sort(World, 1, "numeric")} :
                   InstallMutation(w, "sort", <<>>)
\* list.concat(other) or other.concat(list)
IterConcat ==
  IterRunning /\ \E l \in 1..2 : \E w \in {ConcatList(World, l, 3 - l)} :
                   InstallMutation(w, "concat", <<l, 3 - l>>)

NextIter ==
  \/ IterCreate \/ IterNext \/ IterAppend \/ IterPrepend \/ IterPush
  \/ IterUnshift \/ IterInsertAt \/ IterPop \/ IterShift \/ IterRemoveAt
  \/ IterRemove \/ IterClear \/ IterReverse \/ IterSort \/ IterConcat

SpecIter == InitIter /\ [][NextIter]_vars

(***************************************************************************)
(* Claims about the native iterator (checked under SpecIter)               *)
(***************************************************************************)
\* C11: when the list was changed by a mutator after an iterator was created
\* and before the iterator reported done, the mutator did not throw and the
\* next step of the iterator throws the concurrent modification error
C11_IteratorDetectsModification ==
  [][/\ (last'.op = "next" /\ iterators[last'.args[1]].changed
         /\ ~iterators[last'.args[1]].done)
        => last'.err = "ConcurrentModification"
     /\ (\E i \in 1..Len(iterators) : iterators'[i].changed /\ ~iterators[i].changed)
        => last'.err = "none"]_vars

\* C32: A.concat(B) with a non-empty list B is a structural mutation of the
\* donor B too: it increases the modification counter of B, so that an
\* iterator over B created before the concat throws 'Concurrent modification
\* during iteration' at its next step.
C32_ConcatCountsOnDonor ==
  [][/\ (/\ last'.op = "concat"
         /\ last'.err = "none"
         /\ lists[last'.args[2]].size > 0)
        => lists'[last'.args[2]].modCount > lists[last'.args[2]].modCount
     /\ (/\ last.op = "concat"
         /\ last.before[last.args[2]].arr # <<>>
         /\ last'.op = "next"
         /\ iterators[last'.args[1]].it.list = last.args[2]
         /\ ~iterators[last'.args[1]].done)
        => last'.err = "ConcurrentModification"]_vars

(***************************************************************************)
(* SpecIndex: an observable list with a listener, with or without an       *)
(* active transaction, addressed with indices in and out of range          *)
(***************************************************************************)
MaxIndex == 4
MaxIndexCalls == 2

Indices == (0 - MaxIndex - 1)..MaxIndex

\* const list = new UltimateLinkedList(iterable, {observable: true});
\* list.addChangeListener(cb2); and, or not, list.beginTransaction().begin()
InitIndex ==
  \E n \in {0, 1, 3}, inTransaction \in BOOLEAN :
    \E o \in {AddChangeListener(Constructor(EmptyWorld, TRUE, Iota(n), TRUE, TRUE), 1, 2)} :
    \E w \in {IF inTransaction THEN TxBegin(BeginTransaction(o, 1), 1) ELSE o} :
      /\ heap = w.heap
      /\ lists = w.lists
      /\ txs = w.txs
      /\ log = <<>>
      /\ last = ConcatNoCall
      /\ atBegin = <<>>
      /\ cursors = <<>>
      /\ iterators = <<>>
      /\ removers = <<>>

IndexRunning == last.err # "hang" /\ last.n < MaxIndexCalls

IndexInsertAt ==
  IndexRunning /\ \E i \in Indices : \E w \in {InsertAt(World, 1, FreshValue, i)} :
                    InstallCall(w, "insertAt", <<FreshValue, i>>)
IndexGet ==
  IndexRunning /\ \E i \in Indices : \E w \in {Get(World, 1, i)} :
                    InstallCall(w, "get", <<i>>)
IndexSet ==
  IndexRunning /\ \E i \in Indices : \E w \in {Set(World, 1, i, FreshValue)} :
                    InstallCall(w, "set", <<i, FreshValue>>)
IndexRemoveAt ==
  IndexRunning /\ \E i \in Indices : \E w \in {RemoveAt(World, 1, i)} :
                    InstallCall(w, "removeAt", <<i>>)

NextIndex == IndexInsertAt \/ IndexGet \/ IndexSet \/ IndexRemoveAt

SpecIndex == InitIndex /\ [][NextIndex]_vars

(***************************************************************************)
(* Claims about indices (checked under SpecIndex)                          *)
(***************************************************************************)
\* C13: insertAt(value, index) with a negative index that resolves, as for get
\* and removeAt, to size + index within the list puts the value at position
\* size + index, size being the length before the insertion
C13_NegativeInsertIndexResolves ==
  [][(/\ last'.op = "insertAt"
      /\ last'.args[2] < 0
      /\ lists[1].size + last'.args[2] >= 0)
     => /\ last'.err = "none"
        /\ Get(World', 1, lists[1].size + last'.args[2]).ret = last'.args[1]]_vars

\* the index a negative index stands for: size + index
Resolved(size, index) == IF index < 0 THEN size + index ELSE index

\* C14: insertAt(value, index) whose resolved index is outside [0, size] throws
\* a RangeError, leaves contents, length and modification counter as they
\* were, and delivers and buffers no event
C14_InsertOutOfRangeThrows ==
  [][(/\ last'.op = "insertAt"
      /\ Resolved(lists[1].size, last'.args[2]) \notin 0..lists[1].size)
     => /\ last'.err = "RangeError"
        /\ heap' = heap /\ lists' = lists /\ txs' = txs
        /\ log' = <<>>]_vars

\* C15: for an index with index >= size or index < -size, get returns
\* undefined, set returns false and removeAt returns undefined, none throws,
\* and contents, length, modification counter and events are left as they were
C15_OutOfRangeReadsAreLenient ==
  [][(/\ last'.op \in {"get", "set", "removeAt"}
      /\ (last'.args[1] >= lists[1].size \/ last'.args[1] < 0 - lists[1].size))
     => /\ last'.err = "none"
        /\ last'.ret = (IF last'.op = "set" THEN FALSE ELSE Undef)
        /\ heap' = heap /\ lists' = lists /\ txs' = txs
        /\ log' = <<>>]_vars

\* removeAt was called below -size on a non-empty list with an active transaction
C15_Witness ==
  /\ last.op = "removeAt" /\ last.args[1] < 0 - lists[1].size
  /\ lists[1].size > 0
  /\ lists[1].transaction # Null

(***************************************************************************)
(* SpecListeners: callbacks registered, some of them more than once, and   *)
(* the functions that addChangeListener returned called any number of      *)
(* times                                                                   *)
(***************************************************************************)
MaxRegistrations == 3
MaxListenerCalls == 5

Callbacks == {1, 2}

\* regs lists the calls of addChangeListener (by the position of their remover
\* in removers) whose own remover has not been called, in the order of the calls
InitListeners ==
  \E w \in {Constructor(EmptyWorld, FALSE, <<>>, TRUE, TRUE)} :
    /\ heap = w.heap
    /\ lists = w.lists
    /\ txs = w.txs
    /\ log = <<>>
    /\ last = [n |-> 0, op |-> "new", args |-> <<>>, err |-> "none", regs |-> <<>>]
    /\ atBegin = <<>>
    /\ cursors = <<>>
    /\ iterators = <<>>
    /\ removers = <<>>

ListenersRunning == last.n < MaxListenerCalls

InstallListeners(w, op, args, regs) ==
  /\ heap' = w.heap
  /\ lists' = w.lists
  /\ txs' = w.txs
  /\ log' = w.log
  /\ last' = [n |-> last.n + 1, op |-> op, args |-> args, err |-> w.err,
              regs |-> regs]
  /\ UNCHANGED <<atBegin, cursors, iterators>>

\* const remover = list.addChangeListener(cb)
ListenersAdd ==
  /\ ListenersRunning /\ Len(removers) < MaxRegistrations
  /\ \E cb \in Callbacks : \E w \in {AddChangeListener(World, 1, cb)} :
       /\ InstallListeners(w, "addChangeListener", <<cb>>,
                           Append(last.regs, Len(removers) + 1))
       /\ removers' = Append(removers, [listener |-> cb])

\* remover()
ListenersRemove ==
  /\ ListenersRunning
  /\ \E r \in 1..Len(removers) :
       \E w \in {RemoveListener(World, 1, removers[r].listener)} :
         InstallListeners(w, "remover", <<r>>,
                          SelectSeq(last.regs, LAMBDA x : x # r))
  /\ UNCHANGED removers

\* list.append(1)
ListenersAppend ==
  /\ ListenersRunning
  /\ \E w \in {AppendValue(World, 1, 1)} :
       InstallListeners(w, "append", <<1>>, last.regs)
  /\ UNCHANGED removers

NextListeners == ListenersAdd \/ ListenersRemove \/ ListenersAppend

SpecListeners == InitListeners /\ [][NextListeners]_vars

\* the callbacks of the registrations whose remover has not been called
Registered == [i \in 1..Len(last.regs) |-> removers[last.regs[i]].listener]

\* C18: the function addChangeListener returned removes exactly the
\* registration that produced it: after it was called, once or several times,
\* every other registration (a second registration of the same callback
\* included) is still registered, in its place, and receives the events.
C18_RemoverRemovesItsOwnRegistration ==
  /\ lists[1].listeners = Registered
  /\ last.op = "append"
       => log = [i \in 1..Len(Registered) |->
                   [cb |-> Registered[i], ev |-> Ev("add", 1, 0, 0)]]

(***************************************************************************)
(* SpecCursor: a cursor moved over a list that is changed under it         *)
(***************************************************************************)
MaxCursors == 1
MaxCursorCalls == 4

\* const list = new UltimateLinkedList([1..n])
InitCursor ==
  \E n \in {0, 2, 3} :
    \E w \in {Constructor(EmptyWorld, TRUE, Iota(n), TRUE, FALSE)} :
      /\ heap = w.heap
      /\ lists = w.lists
      /\ txs = w.txs
      /\ log = <<>>
      /\ last = ConcatNoCall
      /\ atBegin = <<>>
      /\ cursors = <<>>
      /\ iterators = <<>>
      /\ removers = <<>>

CursorRunning == last.err # "hang" /\ last.n < MaxCursorCalls

\* the state after a call of a cursor method: the list is as it was
InstallCursor(cs, op, args, ret, err) ==
  /\ cursors' = cs
  /\ last' = [n |-> last.n + 1, op |-> op, args |-> args, ret |-> ret,
              arr |-> <<>>, err |-> err,
              before |-> [k \in 1..Len(lists) |-> Contents(World, k)]]
  /\ UNCHANGED <<heap, lists, txs, log, atBegin, iterators, removers>>

\* const cursor = list.cursor()
CursorCreate ==
  /\ CursorRunning /\ Len(cursors) < MaxCursors
  /\ \E r \in {CursorOf(World, 1)} :
       InstallCursor(Append(cursors, r.cursor), "cursor", <<>>, Undef, r.err)

\* const cursor = list.cursorAt(index)
CursorCreateAt ==
  /\ CursorRunning /\ Len(cursors) < MaxCursors
  /\ \E index \in {0, 1, -1, 3} : \E r \in {CursorAt(World, 1, index)} :
       InstallCursor(IF r.err = "none" THEN Append(cursors, r.cursor) ELSE cursors,
                     "cursorAt", <<index>>, Undef, r.err)

CursorTurn ==
  /\ CursorRunning
  /\ \E i \in 1..Len(cursors), dir \in {1, -1} :
       InstallCursor([cursors EXCEPT ![i] = CursorSetDirection(@, dir)],
                     "setDirection", <<i, dir>>, Undef, "none")

CursorStep ==
  /\ CursorRunning
  /\ \E i \in 1..Len(cursors) : \E c \in {CursorNext(World, cursors[i])} :
       InstallCursor([cursors EXCEPT ![i] = c], "next", <<i>>, Undef, "none")

CursorAsk ==
  /\ CursorRunning
  /\ \E i \in 1..Len(cursors) : \E v \in {CursorValid(World, cursors[i])} :
       InstallCursor(cursors, "valid", <<i>>, v, "none")

CursorRewind ==
  /\ CursorRunning
  /\ \E i \in 1..Len(cursors), toEnd \in BOOLEAN :
       \E c \in {CursorReset(World, cursors[i], toEnd)} :
         InstallCursor([cursors EXCEPT ![i] = c], "reset", <<i, toEnd>>, Undef, "none")

CursorAppend ==
  CursorRunning /\ \E w \in {AppendValue(World, 1, FreshValue)} :
                     InstallCall(w, "append", <<1, FreshValue>>)
CursorRemoveAt ==
  CursorRunning /\ \E i \in {0, 1, -1} : \E w \in {RemoveAt(World, 1, i)} :
                     InstallCall(w, "removeAt", <<1, i>>)
CursorPop ==
  CursorRunning /\ \E w \in {Pop(World, 1)} : InstallCall(w, "pop", <<1>>)
CursorClear ==
  CursorRunning /\ \E w \in {Clear(World, 1)} : InstallCall(w, "clear", <<1>>)

NextCursor ==
  \/ CursorCreate \/ CursorCreateAt \/ CursorTurn \/ CursorStep \/ CursorAsk
  \/ CursorRewind \/ CursorAppend \/ CursorRemoveAt \/ CursorPop \/ CursorClear

SpecCursor == InitCursor /\ [][NextCursor]_vars

\* C20: valid() answers true only for a cursor whose node is an element
\* linked between the two sentinels of its list; it answers false for a cursor
\* that is not positioned, is on a sentinel, or is on a node that was removed.
C20_ValidOnlyOnLiveElement ==
  (last.op = "valid" /\ last.ret = TRUE)
    => LET c == cursors[last.args[1]]
           live == Chain(World, c.list).nodes
       IN \E k \in 1..Len(live) : live[k] = c.node

(***************************************************************************)
(* SpecReduce: reduce, with and without a seed, on lists of 0 to 5         *)
(* elements that grow and shrink between the calls                         *)
(***************************************************************************)
MaxReduceLen == 3
MaxReduceCalls == 3

Seeds == {Undef, 7}

\* const list = new UltimateLinkedList([1..n], {skipLinks})
InitReduce ==
  \E n \in 0..MaxReduceLen, skipLinks \in BOOLEAN :
    \E w \in {Constructor(EmptyWorld, TRUE, Iota(n), skipLinks, FALSE)} :
      /\ heap = w.heap
      /\ lists = w.lists
      /\ txs = w.txs
      /\ log = <<>>
      /\ last = ConcatNoCall
      /\ atBegin = <<>>
      /\ cursors = <<>>
      /\ iterators = <<>>
      /\ removers = <<>>

ReduceRunning == last.err # "hang" /\ last.n < MaxReduceCalls

ReduceAppend ==
  ReduceRunning /\ \E w \in {AppendValue(World, 1, FreshValue)} :
                     InstallCall(w, "append", <<1, FreshValue>>)
ReducePrepend ==
  ReduceRunning /\ \E w \in {Prepend(World, 1, FreshValue)} :
                     InstallCall(w, "prepend", <<1, FreshValue>>)
ReduceRemoveAt ==
  ReduceRunning /\ \E i \in {0, 1} : \E w \in {RemoveAt(World, 1, i)} :
                     InstallCall(w, "removeAt", <<1, i>>)
ReducePop ==
  ReduceRunning /\ \E w \in {Pop(World, 1)} : InstallCall(w, "pop", <<1>>)
ReduceSeedless ==
  ReduceRunning /\ \E w \in {Reduce(World, 1, FALSE, Undef)} :
                     InstallCall(w, "reduce", <<1, FALSE, Undef>>)
ReduceSeeded ==
  ReduceRunning /\ \E seed \in Seeds : \E w \in {Reduce(World, 1, TRUE, seed)} :
                     InstallCall(w, "reduce", <<1, TRUE, seed>>)

NextReduce ==
  \/ ReduceAppend \/ ReducePrepend \/ ReduceRemoveAt \/ ReducePop
  \/ ReduceSeedless \/ ReduceSeeded

SpecReduce == InitReduce /\ [][NextReduce]_vars

RECURSIVE LeftFold(_, _, _)
\* the left fold of arr from position i on, the callback given indices i - 1, ...
LeftFold(arr, acc, i) ==
  IF i > Len(arr) THEN acc
  ELSE LeftFold(arr, Callback(acc, arr[i], i - 1), i + 1)

\* C21: reduce(callback) without a seed throws a TypeError on an empty list; on
\* a non-empty one it returns the left fold that starts with the first
\* element and gives callback the other elements in forward order with the
\* indices 1..size-1; with a seed it folds over all the elements from index 0.
C21_ReduceIsLeftFold ==
  last.op = "reduce"
    => LET arr == Contents(World, 1).arr IN
       IF ~last.args[2]
       THEN IF arr = <<>> THEN last.err = "TypeError"
            ELSE last.err = "none" /\ last.ret = LeftFold(arr, arr[1], 2)
       ELSE last.err = "none" /\ last.ret = LeftFold(arr, last.args[3], 1)

\* reduce without a seed has just folded a list of three or more elements
C21_Witness ==
  /\ last.op = "reduce" /\ ~last.args[2] /\ last.err = "none"
  /\ lists[1].size >= 3
  /\ last.ret = LeftFold(Contents(World, 1).arr, Contents(World, 1).arr[1], 2)

(***************************************************************************)
(* SpecRange: calls of UltimateLinkedList.range with integer arguments     *)
(***************************************************************************)
MaxRange == 3
MaxRangeCalls == 1

RangeArgs == (0 - MaxRange)..MaxRange

InitRange ==
  /\ heap = <<>>
  /\ lists = <<>>
  /\ txs = <<>>
  /\ log = <<>>
  /\ last = ConcatNoCall
  /\ atBegin = <<>>
  /\ cursors = <<>>
  /\ iterators = <<>>
  /\ removers = <<>>

\* const list = UltimateLinkedList.range(start, end, step)
RangeCall ==
  /\ last.n < MaxRangeCalls
  /\ \E start \in RangeArgs, end \in RangeArgs, step \in RangeArgs :
       \E w \in {Range(World, start, end, step)} :
         InstallCall(w, "range", <<start, end, step>>)

\* const list = UltimateLinkedList.range(start, end)
RangeCallDefaultStep ==
  /\ last.n < MaxRangeCalls
  /\ \E start \in RangeArgs, end \in RangeArgs :
       \E w \in {Range(World, start, end, 1)} :
         InstallCall(w, "range", <<start, end>>)

NextRange == RangeCall \/ RangeCallDefaultStep

SpecRange == InitRange /\ [][NextRange]_vars

\* start + k * step lies before end, in the direction of step
Before(start, end, step, k) ==
  IF step > 0 THEN start + k * step < end ELSE start + k * step > end

\* start, start + step, start + 2 * step, ... up to the last one before end
Progression(start, end, step) ==
  LET far == IF end > start THEN end - start ELSE start - end
      n == Cardinality({k \in 0..far : \A j \in 0..k : Before(start, end, step, j)})
  IN [k \in 1..n |-> start + (k - 1) * step]

\* C22: range(start, end, step) throws a RangeError when step is 0; it gives
\* an empty list when step > 0 and start >= end or step < 0 and start <= end;
\* otherwise exactly start, start + step, start + 2 * step, ..., in this order,
\* stopping before the first value that reaches or passes end.
C22_RangeIsProgression ==
  last.op = "range"
    => LET start == last.args[1]
           end == last.args[2]
           step == IF Len(last.args) = 3 THEN last.args[3] ELSE 1
       IN IF step = 0 THEN last.err = "RangeError"
          ELSE /\ last.err = "none"
               /\ Contents(World, Len(lists)).arr = Progression(start, end, step)
               /\ lists[Len(lists)].size = Len(Progression(start, end, step))
               /\ ((step > 0 /\ start >= end) \/ (step < 0 /\ start <= end))
                    => Contents(World, Len(lists)).arr = <<>>

\* range has just given a descending list of several values that stops
\* before end
C22_Witness ==
  /\ last.op = "range" /\ last.err = "none"
  /\ Len(last.args) = 3 /\ last.args[3] < -1
  /\ lists[Len(lists)].size >= 3
  /\ Contents(World, Len(lists)).arr[lists[Len(lists)].size] > last.args[2] + 1

(***************************************************************************)
(* SpecImmutable: a list, the mutable copy made from its immutable view,   *)
(* and mutations of the one and of the other                               *)
(***************************************************************************)
MaxCopies == 1
MaxImmutableCalls == 3

\* const list = new UltimateLinkedList([1..n])
InitImmutable ==
  \E n \in {0, 2, 3, MinSkipSize} :
    \E w \in {Constructor(EmptyWorld, TRUE, Iota(n), TRUE, FALSE)} :
      /\ heap = w.heap
      /\ lists = w.lists
      /\ txs = w.txs
      /\ log = <<>>
      /\ last = ConcatNoCall
      /\ atBegin = <<>>
      /\ cursors = <<>>
      /\ iterators = <<>>
      /\ removers = <<>>

ImmutableRunning == last.err # "hang" /\ last.n < MaxImmutableCalls

\* const mutable = list.immutable().toMutable()
ImmutableToMutable ==
  /\ ImmutableRunning /\ Len(lists) < 1 + MaxCopies
  /\ \E w \in {ToMutable(World, 1)} : InstallCall(w, "toMutable", <<1>>)

ImmutableAppend ==
  ImmutableRunning /\ \E l \in 1..Len(lists) :
    \E w \in {AppendValue(World, l, FreshValue)} :
      InstallCall(w, "append", <<l, FreshValue>>)
ImmutablePrepend ==
  ImmutableRunning /\ \E l \in 1..Len(lists) :
    \E w \in {Prepend(World, l, FreshValue)} :
      InstallCall(w, "prepend", <<l, FreshValue>>)
ImmutableInsertAt ==
  ImmutableRunning /\ \E l \in 1..Len(lists) :
    \E w \in {InsertAt(World, l, FreshValue, 1)} :
      InstallCall(w, "insertAt", <<l, FreshValue, 1>>)
ImmutableRemoveAt ==
  ImmutableRunning /\ \E l \in 1..Len(lists), i \in {0, -1} :
    \E w \in {RemoveAt(World, l, i)} :
      InstallCall(w, "removeAt", <<l, i>>)
ImmutableSet ==
  ImmutableRunning /\ \E l \in 1..Len(lists) :
    \E w \in {Set(World, l, 0, FreshValue)} :
      InstallCall(w, "set", <<l, 0, FreshValue>>)
ImmutableReverse ==
  ImmutableRunning /\ \E l \in 1..Len(lists) :
    \E w \in {Reverse(World, l)} : InstallCall(w, "reverse", <<l>>)
ImmutableClear ==
  ImmutableRunning /\ \E l \in 1..Len(lists) :
    \E w \in {Clear(World, l)} : InstallCall(w, "clear", <<l>>)

NextImmutable ==
  \/ ImmutableToMutable \/ ImmutableAppend \/ ImmutablePrepend
  \/ ImmutableInsertAt \/ ImmutableRemoveAt \/ ImmutableSet
  \/ ImmutableReverse \/ ImmutableClear

SpecImmutable == InitImmutable /\ [][NextImmutable]_vars

\* C23: toMutable() returns a list with the ordered contents of the source of
\* the view, and the two are independent: a later mutation of the copy changes
\* neither contents nor length of the source, and a later mutation of the
\* source changes neither contents nor length of the copy.
C23_ToMutableIsIndependentCopy ==
  [][IF last'.op = "toMutable"
     THEN /\ last'.err = "none"
          /\ Len(lists') = Len(lists) + 1
          /\ Contents(World', Len(lists')) = Contents(World, 1)
          /\ lists'[Len(lists')].size = lists[1].size
          /\ Contents(World', 1) = Contents(World, 1)
     ELSE \A k \in 1..Len(lists) :
            k # last'.args[1]
              => /\ Contents(World', k) = Contents(World, k)
                 /\ lists'[k].size = lists[k].size]_vars

\* the source and its copy both exist and have been changed to different
\* contents
C23_Witness ==
  /\ Len(lists) = 2
  /\ last.op \in {"set", "reverse", "removeAt"}
  /\ last.err = "none"
  /\ lists[1].size >= 2 /\ lists[2].size >= 2
  /\ Contents(World, 1) # Contents(World, 2)
  /\ Contents(World, last.args[1]) # last.before[last.args[1]]

(***************************************************************************)
(* SpecChain: fluent chains of calls on a LinkedList.  Each call is made   *)
(* on what the call before it returned: the list, or the value that        *)
(* removeAt returned, which has none of the methods                        *)
(***************************************************************************)
MaxChain == 3

\* const list = LinkedList.of(10, 20).prepend(0).append(30), and shorter lists
InitChain ==
  \E s \in {LinkedListAppend(LinkedListPrepend(LinkedListOf(<<10, 20>>), 0), 30),
            LinkedListOf(<<10>>), LinkedListNew} :
    /\ heap = s.heap
    /\ lists = <<[head |-> s.head, tail |-> s.tail, size |-> s.size]>>
    /\ txs = <<>>
    /\ log = <<>>
    /\ last = [n |-> 0, err |-> "none", ret |-> Self, chain |-> <<>>,
               start |-> LinkedListValues(s.heap, s.heap[s.head].next, <<>>,
                                          Len(s.heap))]
    /\ atBegin = <<>>
    /\ cursors = <<>>
    /\ iterators = <<>>
    /\ removers = <<>>

\* the list as the calls so far left it
TheList ==
  [heap |-> heap, head |-> lists[1].head, tail |-> lists[1].tail,
   size |-> lists[1].size, err |-> "none", ret |-> Self]

\* [...list]
Iterated == LinkedListValues(heap, heap[lists[1].head].next, <<>>, Len(heap))

\* the chain goes on while nothing was thrown
ChainRunning == last.err = "none" /\ last.n < MaxChain

\* the state after the next call of the chain, which gives s when it is made on
\* the list; made on a value it throws a TypeError (not a function)
InstallChained(s, op, args) ==
  LET r == IF last.ret.self THEN s ELSE [TheList EXCEPT !.err = "TypeError"] IN
  /\ heap' = r.heap
  /\ lists' = <<[head |-> r.head, tail |-> r.tail, size |-> r.size]>>
  /\ last' = [n |-> last.n + 1, err |-> r.err, ret |-> r.ret,
              chain |-> Append(last.chain, <<op>> \o args),
              start |-> last.start]
  /\ UNCHANGED <<txs, log, atBegin, cursors, iterators, removers>>

ChainAppend ==
  ChainRunning /\ \E s \in {LinkedListAppend(TheList, 40)} :
                    InstallChained(s, "append", <<40>>)
ChainPrepend ==
  ChainRunning /\ \E s \in {LinkedListPrepend(TheList, 5)} :
                    InstallChained(s, "prepend", <<5>>)
ChainInsertAt ==
  ChainRunning /\ \E index \in {0, 3, -1, 6} :
                    \E s \in {LinkedListInsertAt(TheList, 15, index)} :
                      InstallChained(s, "insertAt", <<15, index>>)
ChainRemoveAt ==
  ChainRunning /\ \E index \in {0, -2, 6} :
                    \E s \in {LinkedListRemoveAt(TheList, index)} :
                      InstallChained(s, "removeAt", <<index>>)
ChainReverse ==
  ChainRunning /\ \E s \in {LinkedListReverse(TheList)} :
                    InstallChained(s, "reverse", <<>>)

NextChain ==
  ChainAppend \/ ChainPrepend \/ ChainInsertAt \/ ChainRemoveAt \/ ChainReverse

SpecChain == InitChain /\ [][NextChain]_vars

\* C24: from the list [0, 10, 20, 30] the chain
\* insertAt(15, 3).removeAt(-2).reverse() leaves the list iterating as
\* [30, 20, 15, 10, 0].
C24_DemoChainLeavesReversedList ==
  (/\ last.start = <<0, 10, 20, 30>>
   /\ last.chain = <<<<"insertAt", 15, 3>>, <<"removeAt", -2>>, <<"reverse">>>>)
    => /\ last.err = "none"
       /\ Iterated = <<30, 20, 15, 10, 0>>

(***************************************************************************)
(* SpecTraverse: one forward cursor over a list that is not changed,       *)
(* moved by next(), by the next() of its iterator and by reset()           *)
(***************************************************************************)
MaxTraverseLen == 3
MaxTraverseCalls == 6

\* start is the index the cursor was created at, direct says that only the
\* iterator has moved it since, up to its first done; yielded and done are
\* what the iterator gave; past says that next() has run the cursor off the
\* end since it was created or reset
TraverseNoCall ==
  [n |-> 0, op |-> "new", args |-> <<>>, start |-> -1, direct |-> FALSE,
   yielded |-> <<>>, done |-> FALSE, past |-> FALSE]

\* const list = new UltimateLinkedList([1..n])
InitTraverse ==
  \E n \in 0..MaxTraverseLen :
    \E w \in {Constructor(EmptyWorld, TRUE, Iota(n), TRUE, FALSE)} :
      /\ heap = w.heap
      /\ lists = w.lists
      /\ txs = w.txs
      /\ log = <<>>
      /\ last = TraverseNoCall
      /\ atBegin = <<>>
      /\ cursors = <<>>
      /\ iterators = <<>>
      /\ removers = <<>>

TraverseRunning == last.n < MaxTraverseCalls

InstallTraverse(c, op, args, start, direct, yielded, done, past) ==
  /\ cursors' = <<c>>
  /\ last' = [n |-> last.n + 1, op |-> op, args |-> args, start |-> start,
              direct |-> direct, yielded |-> yielded, done |-> done,
              past |-> past]
  /\ UNCHANGED <<heap, lists, txs, log, atBegin, iterators, removers>>

\* const cursor = list.cursor()
TraverseCursor ==
  /\ TraverseRunning /\ cursors = <<>>
  /\ InstallTraverse(CursorOf(World, 1).cursor, "cursor", <<>>, -1, FALSE,
                     <<>>, FALSE, FALSE)

\* const cursor = list.cursorAt(index)
TraverseCursorAt ==
  /\ TraverseRunning /\ cursors = <<>>
  /\ \E index \in -2..MaxTraverseLen : \E r \in {CursorAt(World, 1, index)} :
       /\ r.err = "none"
       /\ InstallTraverse(r.cursor, "cursorAt", <<index>>, r.cursor.index,
                          r.cursor.node # Null, <<>>, FALSE, FALSE)

\* cursor.next()
TraverseNext ==
  /\ TraverseRunning /\ cursors # <<>>
  /\ \E c \in {CursorNext(World, cursors[1])} :
       InstallTraverse(c, "next", <<>>, last.start, FALSE, last.yielded,
                       last.done, last.past \/ ~CursorValid(World, c))

\* cursor[Symbol.iterator]().next()
TraverseIterate ==
  /\ TraverseRunning /\ cursors # <<>>
  /\ \E r \in {CursorIteratorNext(World, cursors[1])} :
       InstallTraverse(r.cursor, "iterate", <<>>, last.start,
                       last.direct /\ ~last.done,
                       IF r.done THEN last.yielded
                       ELSE Append(last.yielded, r.value),
                       r.done, last.past \/ ~CursorValid(World, r.cursor))

\* cursor.reset(toEnd)
TraverseReset ==
  /\ TraverseRunning /\ cursors # <<>>
  /\ \E toEnd \in BOOLEAN : \E c \in {CursorReset(World, cursors[1], toEnd)} :
       InstallTraverse(c, "reset", <<toEnd>>, last.start, FALSE, <<>>, FALSE,
                       FALSE)

NextTraverse ==
  \/ TraverseCursor \/ TraverseCursorAt \/ TraverseNext \/ TraverseIterate
  \/ TraverseReset

SpecTraverse == InitTraverse /\ [][NextTraverse]_vars

C29_CursorPastTheEndStaysInvalid ==
  [][(/\ last'.op = "next"
      /\ last.past
      /\ ~CursorValid(World, cursors[1]))
     => ~CursorValid(World', cursors'[1])]_vars

(***************************************************************************)
(* SpecSingly: two LinkedLists changed by all their mutators, concat of    *)
(* one onto the other, and onto itself, included                           *)
(***************************************************************************)
MaxSinglyCalls == 3

\* the list l as the calls so far left it
SinglyList(l) ==
  [heap |-> heap, head |-> lists[l].head, tail |-> lists[l].tail,
   size |-> lists[l].size, err |-> "none", ret |-> Self]

\* const a = LinkedList.of(1..n); const b = LinkedList.of(11..10+m)
InitSingly ==
  \E n \in {0, 1, 3}, m \in {0, 2} :
    \E a \in {LinkedListOf(Iota(n))} :
    \E b \in {LinkedListAppendAll(LinkedListNewIn(a.heap),
                                  [i \in 1..m |-> 10 + i])} :
      /\ heap = b.heap
      /\ lists = <<[head |-> a.head, tail |-> a.tail, size |-> a.size],
                   [head |-> b.head, tail |-> b.tail, size |-> b.size]>>
      /\ txs = <<>>
      /\ log = <<>>
      /\ last = [n |-> 0, op |-> "new", args |-> <<>>, err |-> "none",
                 ret |-> Self]
      /\ atBegin = <<>>
      /\ cursors = <<>>
      /\ iterators = <<>>
      /\ removers = <<>>

SinglyRunning == last.n < MaxSinglyCalls

\* the state after a call on list l that left it as s
InstallSingly(l, s, op, args) ==
  /\ heap' = s.heap
  /\ lists' = [lists EXCEPT ![l] = [head |-> s.head, tail |-> s.tail,
                                    size |-> s.size]]
  /\ last' = [n |-> last.n + 1, op |-> op, args |-> args, err |-> s.err,
              ret |-> s.ret]
  /\ UNCHANGED <<txs, log, atBegin, cursors, iterators, removers>>

SinglyAppend ==
  SinglyRunning /\ \E l \in 1..2 :
    \E s \in {LinkedListAppend(SinglyList(l), FreshValue)} :
      InstallSingly(l, s, "append", <<l, FreshValue>>)
SinglyPrepend ==
  SinglyRunning /\ \E l \in 1..2 :
    \E s \in {LinkedListPrepend(SinglyList(l), FreshValue)} :
      InstallSingly(l, s, "prepend", <<l, FreshValue>>)
SinglyInsertAt ==
  SinglyRunning /\ \E l \in 1..2, index \in {1, -1, -2} :
    \E s \in {LinkedListInsertAt(SinglyList(l), FreshValue, index)} :
      InstallSingly(l, s, "insertAt", <<l, FreshValue, index>>)
SinglyRemoveAt ==
  SinglyRunning /\ \E l \in 1..2, index \in {0, -1} :
    \E s \in {LinkedListRemoveAt(SinglyList(l), index)} :
      InstallSingly(l, s, "removeAt", <<l, index>>)
SinglyRemove ==
  SinglyRunning /\ \E l \in 1..2, value \in {1, 12} :
    \E s \in {LinkedListRemove(SinglyList(l), value)} :
      InstallSingly(l, s, "remove", <<l, value>>)
SinglyClear ==
  SinglyRunning /\ \E l \in 1..2 :
    \E s \in {LinkedListClear(SinglyList(l))} :
      InstallSingly(l, s, "clear", <<l>>)
SinglyReverse ==
  SinglyRunning /\ \E l \in 1..2 :
    \E s \in {LinkedListReverse(SinglyList(l))} :
      InstallSingly(l, s, "reverse", <<l>>)
\* a.concat(b), b.concat(a), a.concat(a), b.concat(b)
SinglyConcat ==
  SinglyRunning /\ \E l \in 1..2, k \in 1..2 :
    \E r \in {LinkedListConcat(SinglyList(l), SinglyList(k), l = k)} :
      /\ heap' = r.this.heap
      /\ lists' = [j \in 1..2 |->
                     IF j = l
                     THEN [head |-> r.this.head, tail |-> r.this.tail,
                           size |-> r.this.size]
                     ELSE IF j = k
                     THEN [head |-> r.other.head, tail |-> r.other.tail,
                           size |-> r.other.size]
                     ELSE lists[j]]
      /\ last' = [n |-> last.n + 1, op |-> "concat", args |-> <<l, k>>,
                  err |-> "none", ret |-> Self]
      /\ UNCHANGED <<txs, log, atBegin, cursors, iterators, removers>>

NextSingly ==
  \/ SinglyAppend \/ SinglyPrepend \/ SinglyInsertAt \/ SinglyRemoveAt
  \/ SinglyRemove \/ SinglyClear \/ SinglyReverse \/ SinglyConcat

SpecSingly == InitSingly /\ [][NextSingly]_vars

RECURSIVE Reachable(_, _, _, _)
\* the nodes reached by next from node n on; cyclic says that the walk did not
\* end within as many steps as there are nodes
Reachable(h, n, acc, fuel) ==
  IF n = Null THEN [cyclic |-> FALSE, nodes |-> acc]
  ELSE IF fuel = 0 THEN [cyclic |-> TRUE, nodes |-> acc]
  ELSE Reachable(h, h[n].next, Append(acc, n), fuel - 1)

\* C33: after any sequence of append, prepend, insertAt, removeAt, remove,
\* clear, reverse and concat, #tail of a LinkedList is the last node reachable
\* from its head sentinel (the sentinel itself when the list is empty), the
\* next of that node is null, and length is the number of nodes reachable
\* after the head sentinel.
C33_TailIsLastReachableNode ==
  \A l \in 1..2 :
    LET L == lists[l]
        walk == Reachable(heap, heap[L.head].next, <<>>, Len(heap))
    IN /\ ~walk.cyclic
       /\ L.size = Len(walk.nodes)
       /\ L.tail = (IF walk.nodes = <<>> THEN L.head
                    ELSE walk.nodes[Len(walk.nodes)])
       /\ heap[L.tail].next = Null

\* removeAt(-1) has just removed the last node of a list that still holds two
\* elements or more, so that #tail had to move back to the node before it
C33_Witness ==
  /\ last.op = "removeAt" /\ last.args[2] = -1
  /\ ~last.ret.self /\ last.ret.value # Undef
  /\ lists[last.args[1]].size >= 2

(***************************************************************************)
(* Claims about seeking by index (checked under SpecSkip)                  *)
(***************************************************************************)
\* C2: after every step of the same sequence of append, prepend, insertAt,
\* removeAt, remove, pop and shift calls on a list with skip links and on a
\* list without, get(i) gives the same value on both for every i in [0, size)
C2_SkipAndLinearGetAgree ==
  \A i \in 0..(lists[2].size - 1) :
    LET a == Get(World, 1, i)
        b == Get(World, 2, i)
    IN a.err = b.err /\ a.ret = b.ret

\* C7: insertAt(v, i) followed by removeAt at the index i resolved to returns v
\* and leaves the length and toArray() as they were before the insertAt
C7_InsertAtThenRemoveAtIsInverse ==
  [][(/\ last.op = "insertAt" /\ last.err = "none"
      /\ last'.op = "removeAt"
      /\ last'.args[1] = ResolveInsert(Len(last.before.arr), last.args[2]))
     => /\ last'.err = "none"
        /\ last'.ret = last.args[1]
        /\ lists'[1].size = Len(last.before.arr)
        /\ Contents(World', 1) = last.before]_vars

\* Array.prototype.slice(start, end) on a sequence
ArraySlice(arr, start, end) ==
  LET len == Len(arr)
      from == IF start < 0 THEN Max2(len + start, 0) ELSE Min2(start, len)
      to == IF end < 0 THEN Max2(len + end, 0) ELSE Min2(end, len)
  IN IF from >= to THEN <<>> ELSE SubSeq(arr, from + 1, to)

\* C9: slice(start, end).toArray() is toArray().slice(start, end) of the
\* original, and the original is left unchanged
C9_SliceIsArraySlice ==
  [][last'.op = "slice"
     => /\ last'.err = "none"
        /\ Contents(World', last'.result) =
             [err |-> "none",
              arr |-> ArraySlice(Contents(World, 1).arr, last'.args[1], last'.args[2])]
        /\ Contents(World', 1) = Contents(World, 1)
        /\ lists'[1].size = lists[1].size]_vars

(***************************************************************************)
(* Claims about reverse (checked under SpecConcat)                         *)
(***************************************************************************)
Reversed(arr) == [i \in 1..Len(arr) |-> arr[Len(arr) + 1 - i]]

MaxSortCalls == 3

SortKeys == {1, 2}

\* a record with key k and a tag no record of the list has: the records of
\* the initial list have the tag 0, and call n brings the tags 2n + 1, 2n + 2
Tagged(k, j) == 100 * k + 2 * last.n + j

\* const list = new UltimateLinkedList(); or UltimateLinkedList.of(200, 100)
InitSort ==
  \E it \in {<<>>, <<200, 100>>} :
    \E w \in {Constructor(EmptyWorld, TRUE, it, TRUE, FALSE)} :
      /\ heap = w.heap
      /\ lists = w.lists
      /\ txs = w.txs
      /\ log = <<>>
      /\ last = ConcatNoCall
      /\ atBegin = <<>>
      /\ cursors = <<>>
      /\ iterators = <<>>
      /\ removers = <<>>

SortRunning == last.err # "hang" /\ last.n < MaxSortCalls

SortAppend ==
  SortRunning /\ \E k \in SortKeys : \E w \in {AppendValue(World, 1, Tagged(k, 1))} :
                   InstallCall(w, "append", <<Tagged(k, 1)>>)
SortPrepend ==
  SortRunning /\ \E k \in SortKeys : \E w \in {Prepend(World, 1, Tagged(k, 1))} :
                   InstallCall(w, "prepend", <<Tagged(k, 1)>>)
SortInsertAt ==
  SortRunning /\ \E k \in SortKeys : \E w \in {InsertAt(World, 1, Tagged(k, 1), 1)} :
                   InstallCall(w, "insertAt", <<Tagged(k, 1), 1>>)
SortPush ==
  SortRunning /\ \E k \in SortKeys :
                 \E w \in {Push(World, 1, <<Tagged(k, 1), Tagged(k, 2)>>)} :
                   InstallCall(w, "push", <<Tagged(k, 1), Tagged(k, 2)>>)
SortUnshift ==
  SortRunning /\ \E k \in SortKeys :
                 \E w \in {Unshift(World, 1, <<Tagged(k, 1), Tagged(k, 2)>>)} :
                   InstallCall(w, "unshift", <<Tagged(k, 1), Tagged(k, 2)>>)
\* list.sort((a, b) => key(a) - key(b))
SortSort ==
  SortRunning /\ \E w \in {Sort(World, 1, "key")} : InstallCall(w, "sort", <<>>)

NextSort ==
  \/ SortAppend \/ SortPrepend \/ SortInsertAt \/ SortPush \/ SortUnshift
  \/ SortSort

SpecSort == InitSort /\ [][NextSort]_vars

(***************************************************************************)
(* Claims about sort (checked under SpecSort)                              *)
(***************************************************************************)
WithKey(arr, k) == SelectSeq(arr, LAMBDA v : KeyOf(v) = k)

\* C10: sort(compareFn) is stable: the elements that compare equal (here, the
\* records of one key) stand after sort() in the order they stood in before
C10_SortIsStable ==
  [][last'.op = "sort"
     => \A k \in SortKeys :
          WithKey(Contents(World', 1).arr, k) = WithKey(Contents(World, 1).arr, k)]_vars

\* C30: sort(compareFn) is idempotent: on a list built by any mix of append,
\* prepend, insertAt and push, a second sort(compareFn) directly after the
\* first, with the same comparator, leaves the order the first one gave.
C30_SortIsIdempotent ==
  [][(last.op = "sort" /\ last'.op = "sort")
     => /\ last'.err = "none"
        /\ Contents(World', 1) = Contents(World, 1)]_vars

(***************************************************************************)
(* Claims about transactions and notification (checked under Spec)         *)
(***************************************************************************)
\* the call just made acted on transaction t, which was active before it
ActedOnActive(op) ==
  /\ last'.op = op
  /\ txs[last'.args[1]].active

\* C1: rollback() leaves the list with the length and the ordered contents
\* (toArray()) it had when begin() activated the transaction.
C1_RollbackRestoresContents ==
  [][ActedOnActive("rollback") =>
       LET t == last'.args[1] IN
       /\ lists'[txs[t].list].size = atBegin[t].size
       /\ Contents(World', txs[t].list) = atBegin[t].contents]_vars

\* the events listener c was invoked with during the last call, in order
DeliveredTo(lg, c) ==
  LET own == SelectSeq(lg, LAMBDA x : x.cb = c) IN
  [i \in 1..Len(own) |-> own[i].ev]

IsPrefix(s, t) == Len(s) <= Len(t) /\ SubSeq(t, 1, Len(s)) = s

\* C3: commit() on an active transaction delivers each buffered event to each
\* registered listener exactly once, in the order in which the events were
\* buffered, and leaves the buffer empty; and the buffer itself only grows at
\* its end, so that its order is the order of the mutations.
C3_CommitDeliversBufferInOrder ==
  [][(ActedOnActive("commit") =>
        LET t == last'.args[1]
            ls == lists[txs[t].list].listeners
        IN /\ txs'[t].events = <<>>
           /\ Len(log') = Len(txs[t].events) * Len(ls)
           /\ \A i \in 1..Len(ls) : DeliveredTo(log', ls[i]) = txs[t].events)
     /\ (\A u \in 1..Len(txs) :
           txs'[u].events # <<>> => IsPrefix(txs[u].events, txs'[u].events))]_vars

\* a commit has just delivered two different events to the two listeners
C3_Witness ==
  /\ last.op = "commit"
  /\ Len(log) = 4
  /\ DeliveredTo(log, 1) = DeliveredTo(log, 2)
  /\ log[1].ev # log[3].ev
  /\ txs[last.args[1]].events = <<>>

\* the event a successful mutation emits, from the states before and after it
ExpectedEvents(op, args, before, after, ret) ==
  IF op \in {"append", "prepend", "insertAt"} /\ after.size > before.size
    THEN <<Ev("add", args[1], 0, 0)>>
  ELSE IF op \in {"removeAt", "remove", "pop", "shift"} /\ after.size < before.size
    THEN <<Ev("remove", ret, 0, 0)>>
  ELSE IF op = "set" /\ ret = TRUE
    THEN <<Ev("update", args[1], Get(World, 1, args[1]).ret, args[2])>>
  ELSE IF op = "clear" /\ before.size > 0
    THEN <<Ev("clear", before.size, 0, 0)>>
  ELSE IF op \in {"reverse", "sort"} /\ before.size >= 2
    THEN <<Ev(op, 0, 0, 0)>>
  ELSE IF op = "concat" /\ after.size > before.size
    THEN <<Ev("concat", after.size, 0, 0)>>
  ELSE <<>>

\* C25: in every reachable state of the list, also after begin, commit and
\* rollback of transactions, the two sentinels are distinct, the successor
\* links lead from the head sentinel to the tail sentinel, the length is the
\* number of nodes strictly between them, and an empty list has head.next at
\* the tail and tail.prev at the head.
C25_SentinelsAndLength ==
  LET L == lists[1]
      chain == Chain(World, 1)
  IN /\ L.head # L.tail
     /\ chain.err = "none"
     /\ Len(chain.nodes) = L.size
     /\ L.size = 0 => /\ heap[L.head].next = L.tail
                      /\ heap[L.tail].prev = L.head

\* the calls that change the list
Mutators ==
  {"append", "prepend", "push", "unshift", "insertAt", "removeAt", "remove",
   "pop", "shift", "set", "clear", "reverse", "sort", "concat"}

\* the events of a successful mutation, push and unshift of one value included
MutationEvents(op, args, before, after, ret) ==
  IF op \in {"push", "unshift"} /\ after.size > before.size
    THEN <<Ev("add", args[1], 0, 0)>>
  ELSE ExpectedEvents(op, args, before, after, ret)

\* C26: each of append, prepend, push, unshift, insertAt, pop, shift,
\* removeAt, remove, clear, reverse, concat, sort and set strictly increases
\* the modification counter of the list whenever it changes the list (set:
\* whenever it writes a value at an index in range); the counter never
\* decreases.
C26_ModCountGrowsOnEveryChange ==
  [][/\ lists'[1].modCount >= lists[1].modCount
     /\ (/\ last'.op \in Mutators
         /\ last'.err = "none"
         /\ \/ Contents(World', 1) # Contents(World, 1)
            \/ last'.op = "set" /\ last'.ret = TRUE)
        => lists'[1].modCount > lists[1].modCount]_vars

\* C28: begin() on a transaction that is already active is a no-op: the
\* snapshot, the event buffer, the active flag, and the contents, length and
\* modification counter of the list are left as they were.
C28_BeginOnActiveIsNoOp ==
  [][ActedOnActive("begin") =>
       /\ last'.err = "none"
       /\ txs' = txs
       /\ lists' = lists
       /\ heap' = heap
       /\ Contents(World', 1) = Contents(World, 1)
       /\ log' = <<>>]_vars

\* begin() has just been called on an active transaction whose list has
\* changed its length since the snapshot was taken
C28_Witness ==
  /\ last.op = "begin"
  /\ txs[last.args[1]].active
  /\ txs[last.args[1]].snapshot.size # lists[1].size

\* C31: on a list constructed with observable false no registered listener is
\* ever invoked, whatever is called on the list or on its transactions,
\* commit() and rollback() included.
C31_UnobservableListNeverNotifies ==
  ~lists[1].observable => log = <<>>

\* C16: on an observable list with no active transaction (none created, one
\* created but not begun, or the previous one committed or rolled back) each
\* successful mutation delivers its event to every registered listener
\* before the call returns.
C16_ImmediateDeliveryWithoutTransaction ==
  [][(/\ lists[1].observable
      /\ \A t \in 1..Len(txs) : ~txs[t].active
      /\ last'.op \in Mutators
      /\ last'.err = "none")
     => \A i \in 1..Len(lists[1].listeners) :
          DeliveredTo(log', lists[1].listeners[i]) =
            MutationEvents(last'.op, last'.args, lists[1], lists'[1], last'.ret)]_vars

\* the log is a sequence of rounds, each round one event handed to every
\* listener of ls once, in the order of ls
InRounds(lg, ls) ==
  /\ Len(ls) > 0 => Len(lg) % Len(ls) = 0
  /\ Len(ls) = 0 => lg = <<>>
  /\ \A j \in 1..Len(lg) :
       LET i == ((j - 1) % Len(ls)) + 1 IN
       /\ lg[j].cb = ls[i]
       /\ lg[j].ev = lg[j - i + 1].ev

\* C17: whenever a call dispatches events (at once, at commit, or the
\* rollback event) every registered listener is invoked exactly once for each
\* event, in registration order, also after a listener that throws; the
\* exception reaches neither the caller nor the state of the list.
C17_EveryListenerInvokedInOrder ==
  [][/\ InRounds(log', lists[1].listeners)
     /\ last'.err # "Error"
     /\ \A c \in ThrowingListeners :
          LET d == Invoke(World', c, Ev("rollback", 0, 0, 0))
              r == Deliver(World', <<c>>, Ev("rollback", 0, 0, 0), 1)
          IN /\ d.err = "Error"
             /\ r.err = "none"
             /\ r.heap = heap' /\ r.lists = lists' /\ r.txs = txs']_vars

\* a rollback, an immediate mutation or a commit has just invoked the
\* listener that throws and then the listener registered after it
C17_Witness ==
  /\ last.op \in {"rollback", "append", "commit"}
  /\ Len(log) >= 2
  /\ log[1].cb \in ThrowingListeners
  /\ log[2].cb \notin ThrowingListeners
  /\ last.err = "none"

\* C19: rollback() on an active transaction hands exactly one rollback event
\* to each listener and none of the buffered events, then or later (the
\* buffer is emptied); afterwards the transaction is inactive and detached,
\* so that beginTransaction() returns a new transaction.
C19_RollbackDeliversOneRollbackEvent ==
  [][ActedOnActive("rollback") =>
       LET t == last'.args[1]
           l == txs[t].list
           ls == lists[l].listeners
       IN /\ log' = [i \in 1..Len(ls) |-> [cb |-> ls[i], ev |-> Ev("rollback", 0, 0, 0)]]
          /\ txs'[t].events = <<>>
          /\ ~txs'[t].active
          /\ lists'[l].transaction = Null
          /\ BeginTransaction(World', l).ret = Len(txs) + 1]_vars

\* the active transaction of a list changed at least twice has just been
\* rolled back, and the log holds the two rollback events
C19_Witness ==
  /\ last.op = "rollback"
  /\ Len(log) = 2
  /\ log[1].ev = Ev("rollback", 0, 0, 0)
  /\ lists[1].modCount >= 2
  /\ ~txs[last.args[1]].active

\* C4: while a transaction is active on an observable list, every structural
\* mutation appends its change event to the buffer of the transaction.
C4_ActiveTransactionBuffersEveryEvent ==
  [][(/\ lists[1].observable
      /\ lists[1].transaction # Null
      /\ txs[lists[1].transaction].active
      /\ last'.err = "none")
     => txs'[lists[1].transaction].events =
          txs[lists[1].transaction].events \o
            ExpectedEvents(last'.op, last'.args, lists[1], lists'[1], last'.ret)]_vars

\* C5: from the begin() of the list's transaction until the caller's commit()
\* or rollback() of that transaction, no call invokes a listener, whatever
\* the call (push and unshift included).
C5_NoListenerInvokedBeforeCommit ==
  [][(/\ lists[1].transaction # Null
      /\ txs[lists[1].transaction].active
      /\ ~(last'.op \in {"commit", "rollback"}
           /\ last'.args = <<lists[1].transaction>>))
     => log' = <<>>]_vars

\* C6: at most one transaction of the list is active.
C6_AtMostOneActiveTransaction ==
  Cardinality({t \in 1..Len(txs) : txs[t].active}) <= 1

====
